---- MODULE Spec2Model ----
(***************************************************************************)
(* Reconciliation engine of the report generator: the consolidated driver  *)
(* (report_maker.py, "rm"), its earlier single-sheet form                  *)
(* (report_maker_consolidated.py, "rmc") and the per-source driver         *)
(* (report_maker_gcs.py, "gcs").                                           *)
(*                                                                         *)
(* A Python str is a sequence of one-character strings.  A cell of a data  *)
(* frame is a record [t, s]: t = "str" (text s), "num" (a number whose     *)
(* str() is s), "nan" (a missing cell) or "none" (Python None).            *)
(***************************************************************************)
EXTENDS Integers, Sequences, FiniteSets, TLC

\* ------------------------------------------------------------------ strings
EmptyStr == <<>>

\* Python None where a str is expected (Optional[str])
None == <<"<None>">>

UpperChars == <<"A","B","C","D","E","F","G","H","I","J","K","L","M","N","O","P","Q","R","S","T","U","V","W","X","Y","Z">>

LowerChars == <<"a","b","c","d","e","f","g","h","i","j","k","l","m","n","o","p","q","r","s","t","u","v","w","x","y","z">>

\* str.isspace for the characters of the model
IsSpace(c) == c \in {" ", "\t", "\n"}

UpperSet == {UpperChars[i] : i \in 1..26}

LowerSet == {LowerChars[i] : i \in 1..26}

IsLetter(c) == c \in UpperSet \/ c \in LowerSet

UpperToLower == [c \in UpperSet |-> LowerChars[CHOOSE i \in 1..26 : c = UpperChars[i]]]

LowerToUpper == [c \in LowerSet |-> UpperChars[CHOOSE i \in 1..26 : c = LowerChars[i]]]

LowerChar(c) == IF c \in UpperSet THEN UpperToLower[c] ELSE c

\* str.lower
Lower(s) == [i \in 1..Len(s) |-> LowerChar(s[i])]

SetMin(S) == CHOOSE x \in S : \A y \in S : x <= y

SetMax(S) == CHOOSE x \in S : \A y \in S : y <= x

RECURSIVE FirstNonSpace(_, _)
\* the first position from i on that holds no whitespace, Len(s) + 1 if none
FirstNonSpace(s, i) ==
  IF i > Len(s) \/ ~IsSpace(s[i]) THEN i ELSE FirstNonSpace(s, i + 1)

RECURSIVE LastNonSpace(_, _)
\* the last position up to i that holds no whitespace, 0 if none
LastNonSpace(s, i) ==
  IF i < 1 \/ ~IsSpace(s[i]) THEN i ELSE LastNonSpace(s, i - 1)

\* str.strip
Strip(s) == SubSeq(s, FirstNonSpace(s, 1), LastNonSpace(s, Len(s)))

\* str.startswith
StartsWith(s, p) == Len(s) >= Len(p) /\ SubSeq(s, 1, Len(p)) = p

\* p in s
Contains(s, p) == \E i \in 1..(Len(s) - Len(p) + 1) : SubSeq(s, i, i + Len(p) - 1) = p

\* str.replace(a, b) for one-character a, b
ReplaceChar(s, a, b) == [i \in 1..Len(s) |-> IF s[i] = a THEN b ELSE s[i]]

\* ------------------------------------------------------------------- cells
StrCell(s) == [t |-> "str", s |-> s]

NumCell(s) == [t |-> "num", s |-> s]

NanCell == [t |-> "nan", s |-> EmptyStr]

NoneCell == [t |-> "none", s |-> EmptyStr]

\* str(v)
PyStr(v) ==
  CASE v.t = "nan" -> <<"n","a","n">>
    [] v.t = "none" -> <<"N","o","n","e">>
    [] OTHER -> v.s

\* norm_str: None and NaN give "", anything else str(v).strip()
norm_str(v) == IF v.t \in {"none", "nan"} THEN EmptyStr ELSE Strip(PyStr(v))

\* ------------------------------------------------- tokens (report_maker.py)
YES_TOKENS_rm == { <<"y","e","s">>, <<"y">>, <<"t","r","u","e">>, <<"1">> }

NO_TOKENS_rm == { <<"n","o">>, <<"n">>, <<"f","a","l","s","e">>, <<"0">> }

NA_TOKENS == { <<"n","a">>, <<"n","/","a">>, <<"n","o","t"," ","a","p","p","l","i","c","a","b","l","e">>, <<"n","o","n","e">>, EmptyStr }

is_yes_rm(v) == Lower(norm_str(v)) \in YES_TOKENS_rm

is_no_rm(v) == Lower(norm_str(v)) \in NO_TOKENS_rm

is_na(v) == Lower(norm_str(v)) \in NA_TOKENS

FailedPrefix(s) ==
  \/ StartsWith(s, <<"f","a","i","l","e","d","-">>)
  \/ StartsWith(s, <<"f","a","i","l","-">>)
  \/ StartsWith(s, <<"e","r","r","o","r">>)
  \/ StartsWith(s, <<"e","x","c","e","p","t","i","o","n">>)

is_failed_pattern(v) == FailedPrefix(Lower(norm_str(v)))

\* --------------------------------------------- tokens (report_maker_gcs.py)
\* "Yes" is a member of the set in the source; no lower-cased string equals it
POS_TOKENS ==
  { <<"y","e","s">>, <<"y">>, <<"t","r","u","e">>, <<"1">>, <<"p","a","s","s">>, <<"p","a","s","s","e","d">>, <<"s","u","c","c","e","s","s">>, <<"o","k">>, <<"Y","e","s">> }

NEG_TOKENS ==
  { <<"n","o">>, <<"n">>, <<"f","a","l","s","e">>, <<"0">>, <<"f","a","i","l">>, <<"f","a","i","l","e","d">>, <<"n","a">>, <<"n","/","a">>,
    <<"n","o","t"," ","a","p","p","l","i","c","a","b","l","e">>, <<"n","o","n","e">>, EmptyStr }

\* the token test without the folding of letter case
is_yes_gcs_case_sensitive(v) == norm_str(v) \in POS_TOKENS

is_yes_gcs(v) == Lower(norm_str(v)) \in POS_TOKENS

is_no_gcs(v) == Lower(norm_str(v)) \in NEG_TOKENS

\* ---------------------------------------------------------------- scorers
\* the verdict strings
Pass == <<"P","a","s","s">>

Fail == <<"F","a","i","l">>

NA == <<"N","A">>

score_producer_rm(value) ==
  IF is_yes_rm(value) THEN Pass
  ELSE IF is_failed_pattern(value) \/ is_no_rm(value) \/ is_na(value)
          \/ norm_str(value) = EmptyStr THEN Fail
  ELSE Fail

score_producer_gcs(value) ==
  IF is_yes_gcs(value) THEN Pass
  ELSE IF is_failed_pattern(value) \/ is_no_gcs(value) \/ is_na(value)
          \/ norm_str(value) = EmptyStr THEN Fail
  ELSE Fail

score_consumer_rm(applicable, posted) ==
  IF is_no_rm(applicable) THEN NA
  ELSE IF is_yes_rm(applicable) /\ is_yes_rm(posted) THEN Pass
  ELSE IF is_failed_pattern(applicable) \/ is_failed_pattern(posted) THEN Fail
  ELSE Fail

\* an inapplicable row exempted: NA instead of Fail
score_consumer_gcs_exempt(applicable, posted) ==
  IF is_no_gcs(applicable) \/ is_na(applicable) THEN NA
  ELSE IF is_yes_gcs(applicable) /\ is_yes_gcs(posted) THEN Pass
  ELSE IF is_failed_pattern(applicable) \/ is_failed_pattern(posted) THEN Fail
  ELSE Fail

score_consumer_gcs(applicable, posted) ==
  IF is_no_gcs(applicable) \/ is_na(applicable) THEN Fail
  ELSE IF is_yes_gcs(applicable) /\ is_yes_gcs(posted) THEN Pass
  ELSE IF is_failed_pattern(applicable) \/ is_failed_pattern(posted) THEN Fail
  ELSE Fail

\* -------------------------------------------------------- reason extraction
\* report_maker.py: the whole trimmed value, when it has a failure prefix
maybe_reason_from_value_rm(value) ==
  LET s == norm_str(value)
  IN  IF s = EmptyStr THEN None
      ELSE IF is_failed_pattern(StrCell(s)) THEN s
      ELSE None

\* [-_\s]
IsBraceSep(c) == c \in {"-", "_"} \/ IsSpace(c)

\* [:\-\s_]
IsStripSep(c) == c \in {":", "-", "_"} \/ IsSpace(c)

AllLetters(s) == \A i \in 1..Len(s) : IsLetter(s[i])

\* (?:ed)?[-_\s]?[a-z]* matched against the whole of r, ignoring case
BracedHead(r) ==
  \/ AllLetters(r)
  \/ /\ Len(r) >= 1 /\ IsBraceSep(r[1]) /\ AllLetters(SubSeq(r, 2, Len(r)))
  \/ /\ Len(r) >= 3 /\ Lower(SubSeq(r, 1, 2)) = <<"e","d">> /\ IsBraceSep(r[3])
     /\ AllLetters(SubSeq(r, 4, Len(r)))

\* _BRACED_FAIL.match(raw): ^fail(?:ed)?[-_\s]?[a-z]*\{(.*?)\} with IGNORECASE
\* and DOTALL.  No part before the brace can match "{", so the brace matched
\* is the first one of raw; the lazy group ends at the first "}" after it.
BracedOpen(raw) == SetMin({i \in 1..Len(raw) : raw[i] = "{"})

BracedMatches(raw) ==
  /\ \E i \in 1..Len(raw) : raw[i] = "{"
  /\ LET k == BracedOpen(raw)
     IN  /\ k >= 5
         /\ Lower(SubSeq(raw, 1, 4)) = <<"f","a","i","l">>
         /\ BracedHead(SubSeq(raw, 5, k - 1))
         /\ \E m \in (k + 1)..Len(raw) : raw[m] = "}"

\* the group of a greedy pattern: up to the last closing brace
BracedGroup_greedy(raw) ==
  LET k == BracedOpen(raw)
      m == SetMax({i \in (k + 1)..Len(raw) : raw[i] = "}"})
  IN  SubSeq(raw, k + 1, m - 1)

\* m.group(1)
BracedGroup(raw) ==
  LET k == BracedOpen(raw)
      m == SetMin({i \in (k + 1)..Len(raw) : raw[i] = "}"})
  IN  SubSeq(raw, k + 1, m - 1)

\* re.sub(r"^fail(?:ed)?[:\-\s_]*", "", raw, flags=re.IGNORECASE)
StripFailMarker(raw) ==
  LET low  == Lower(raw)
      from == IF StartsWith(low, <<"f","a","i","l","e","d">>) THEN 7
              ELSE IF StartsWith(low, <<"f","a","i","l">>) THEN 5 ELSE 1
      rest == {i \in from..Len(raw) : ~IsStripSep(raw[i])}
  IN  IF from = 1 THEN raw
      ELSE IF rest = {} THEN EmptyStr
      ELSE SubSeq(raw, SetMin(rest), Len(raw))

\* every value beginning with "fail" taken for a failure text
maybe_reason_from_value_gcs_any_fail(value) ==
  LET raw == norm_str(value)
      low == Lower(raw)
  IN  IF raw = EmptyStr THEN None
      ELSE IF BracedMatches(raw) THEN Strip(BracedGroup(raw))
      ELSE IF StartsWith(low, <<"f","a","i","l">>)
        THEN LET after == Strip(StripFailMarker(raw))
             IN  IF after # EmptyStr THEN after ELSE raw
      ELSE IF StartsWith(low, <<"e","r","r","o","r">>) \/ StartsWith(low, <<"e","x","c","e","p","t","i","o","n">>) THEN raw
      ELSE None

maybe_reason_from_value_gcs(value) ==
  LET raw == norm_str(value)
      low == Lower(raw)
  IN  IF raw = EmptyStr THEN None
      ELSE IF BracedMatches(raw) THEN Strip(BracedGroup(raw))
      ELSE IF StartsWith(low, <<"f","a","i","l","e","d">>) \/ StartsWith(low, <<"f","a","i","l","-">>)
        THEN LET after == Strip(StripFailMarker(raw))
             IN  IF after # EmptyStr THEN after ELSE raw
      ELSE IF StartsWith(low, <<"e","r","r","o","r">>) \/ StartsWith(low, <<"e","x","c","e","p","t","i","o","n">>) THEN raw
      ELSE None

\* ------------------------------------------------------------- data frames
\* A loaded file is [columns, rows]: the column names and, per row, the cells
\* in column order.  NoDF is the None a reader returns for a missing or
\* unreadable file.
NoDF == [columns |-> << <<"<NoDF>">> >>, rows |-> <<>>]

\* read_excel, read_excel_any: df.columns = [str(c).strip() for c in df.columns]
read_excel(file) ==
  IF file = NoDF THEN NoDF
  ELSE [columns |-> [i \in 1..Len(file.columns) |-> Strip(file.columns[i])],
        rows |-> file.rows]

ColIndex(cols, c) == SetMin({i \in 1..Len(cols) : cols[i] = c})

HasCol(cols, c) == \E i \in 1..Len(cols) : cols[i] = c

\* row[c] of the pd.Series over the columns cols
Cell(cols, row, c) == row[ColIndex(cols, c)]

\* next((c for c in cols if P(c)), None)
FirstCol(cols, P(_)) ==
  IF \E i \in 1..Len(cols) : P(cols[i])
  THEN cols[SetMin({i \in 1..Len(cols) : P(cols[i])})]
  ELSE None

preferred ==
  << <<"T","r","a","c","k","i","n","g","_","I","D","_","O","R","_","U","n","i","q","u","e","_","K","e","y">>, <<"T","r","a","c","k","i","n","g","_","I","D">>, <<"U","n","i","q","u","e","_","K","e","y">>, <<"I","n","v","o","i","c","e"," ","N","o",".">>,
     <<"I","n","v","o","i","c","e","_","N","o">>, <<"I","n","v","o","i","c","e">>, <<"T","r","a","c","k","i","n","g"," ","I","D">> >>

IdLike(c) ==
  LET cl == ReplaceChar(Lower(c), "_", " ")
  IN  Contains(cl, <<"i","n","v","o","i","c","e">>) \/ Contains(cl, <<"t","r","a","c","k","i","n","g">>) \/ Contains(cl, <<"u","n","i","q","u","e">>)

\* the first column, in column order, that bears any preferred name
pick_id_col_by_column_order(cols) ==
  LET named == {i \in 1..Len(cols) :
                  \E j \in 1..Len(preferred) : Strip(cols[i]) = preferred[j]}
  IN  IF named # {} THEN cols[SetMin(named)]
      ELSE FirstCol(cols, IdLike)


\* exact = {c.strip(): c for c in cols}: the last column of a stripped name
pick_id_col(cols) ==
  LET hit(p) == {i \in 1..Len(cols) : Strip(cols[i]) = p}
      hits == {j \in 1..Len(preferred) : hit(preferred[j]) # {}}
  IN  IF hits # {} THEN cols[SetMax(hit(preferred[SetMin(hits)]))]
      ELSE FirstCol(cols, IdLike)

\* report_maker.py
detect_kind_from_key_rm(key) ==
  LET k == Lower(key)
  IN  IF Contains(k, <<"j","s","o","n","_","c","o","m","p","a","r","a","t","o","r">>) THEN "json_comparator"
      ELSE IF Contains(k, <<"c","o","m","p","a","r","a","t","o","r">>) THEN "comparator"
      ELSE IF Contains(k, <<"p","r","o","d","u","c","e","r">>) THEN "producer"
      ELSE IF Contains(k, <<"c","o","n","s","u","m","e","r">>) THEN "consumer"
      ELSE IF Contains(k, <<"n","e","w","r","e","l","i","c">>) \/ Contains(k, <<"n","e","w","_","r","e","l","i","c">>) THEN "newrelic"
      ELSE "newrelic"

\* the producer rule tried before the comparator rules
detect_kind_from_key_gcs_producer_first(key) ==
  LET k == Lower(key)
  IN  IF Contains(k, <<"p","r","o","d","u","c","e","r">>) THEN "producer"
      ELSE IF Contains(k, <<"f","i","l","e","_","c","o","m","p","a","r","a","t","o","r">>) \/ (Contains(k, <<"f","i","l","e">>) /\ Contains(k, <<"c","o","m","p","a","r","a","t","o","r">>))
        THEN "file_comparator"
      ELSE IF Contains(k, <<"j","s","o","n","_","c","o","m","p","a","r","a","t","o","r">>) THEN "json_comparator"
      ELSE IF Contains(k, <<"c","o","m","p","a","r","a","t","o","r">>) THEN "comparator"
      ELSE IF Contains(k, <<"c","o","n","s","u","m","e","r">>) THEN "consumer"
      ELSE "newrelic"

\* report_maker_gcs.py
detect_kind_from_key_gcs(key) ==
  LET k == Lower(key)
  IN  IF Contains(k, <<"f","i","l","e","_","c","o","m","p","a","r","a","t","o","r">>) \/ (Contains(k, <<"f","i","l","e">>) /\ Contains(k, <<"c","o","m","p","a","r","a","t","o","r">>))
        THEN "file_comparator"
      ELSE IF Contains(k, <<"j","s","o","n","_","c","o","m","p","a","r","a","t","o","r">>) THEN "json_comparator"
      ELSE IF Contains(k, <<"c","o","m","p","a","r","a","t","o","r">>) THEN "comparator"
      ELSE IF Contains(k, <<"p","r","o","d","u","c","e","r">>) THEN "producer"
      ELSE IF Contains(k, <<"c","o","n","s","u","m","e","r">>) THEN "consumer"
      ELSE IF Contains(k, <<"n","e","w","r","e","l","i","c">>) \/ Contains(k, <<"n","e","w","_","r","e","l","i","c">>) THEN "newrelic"
      ELSE "newrelic"

\* report_maker_consolidated.py: s = f"{key} {path}".lower()
detect_kind(key, path) ==
  LET s == Lower(key \o <<" ">> \o path)
  IN  IF Contains(s, <<"p","r","o","d","u","c","e","r">>) THEN "producer"
      ELSE IF Contains(s, <<"c","o","n","s","u","m","e","r">>) THEN "consumer"
      ELSE IF Contains(s, <<"c","o","m","p","a","r","a","t","o","r">>) THEN "comparator"
      ELSE IF Contains(s, <<"n","e","w","r","e","l","i","c">>) \/ Contains(s, <<"n","e","w","_","r","e","l","i","c">>) THEN "newrelic"
      ELSE "newrelic"

\* df[id_col] == id_val for a str id_val: a cell equals it only when it is
\* that very string; a number or a missing cell never does
RawEq(cell, id_val) == cell.t = "str" /\ cell.s = id_val

\* report_maker.py, report_maker_consolidated.py: df.loc[df[id_col] == id_val]
MatchRaw(df, id_col, id_val) ==
  {i \in 1..Len(df.rows) : RawEq(Cell(df.columns, df.rows[i], id_col), id_val)}

\* norm_id_series: s.astype(str).map(lambda x: str(x).strip())
NormId(cell) == Strip(PyStr(cell))

\* report_maker_gcs.py: df.loc[norm_id_series(df[id_col]) == str(id_val).strip()]
MatchNorm(df, id_col, id_val) ==
  {i \in 1..Len(df.rows) : NormId(Cell(df.columns, df.rows[i], id_col)) = Strip(id_val)}

\* first_row_for_id of report_maker.py: the index of the row, 0 for None
first_row_for_id_rm(df, id_col, id_val) ==
  LET sub == MatchRaw(df, id_col, id_val)
  IN  IF sub # {} THEN SetMin(sub) ELSE 0

\* first_row_for_id of report_maker_gcs.py
first_row_for_id_gcs(df, id_col, id_val) ==
  LET sub == MatchNorm(df, id_col, id_val)
  IN  IF sub # {} THEN SetMin(sub) ELSE 0

\* [c for c in row.index if c != id_col]
non_id_columns(cols, id_col) == SelectSeq(cols, LAMBDA c : c # id_col)

score_comparator_classic_value_rm(val) ==
  LET s == Lower(norm_str(val))
  IN  IF s = <<"y","e","s">> THEN Pass
      ELSE IF s \in { <<"n","a">>, <<"n","/","a">>, <<"m","i","s","s","i","n","g">> } THEN NA
      ELSE IF s = <<"n","o">> \/ is_failed_pattern(StrCell(s)) THEN Fail
      ELSE Fail

\* the NA-like tokens scored as any other non-positive value
score_comparator_classic_value_gcs_no_na(val) ==
  LET s == Lower(norm_str(val))
  IN  IF s \in POS_TOKENS THEN Pass
      ELSE Fail


score_comparator_classic_value_gcs(val) ==
  LET s == Lower(norm_str(val))
  IN  IF s \in POS_TOKENS THEN Pass
      ELSE IF s \in { <<"n","a">>, <<"n","/","a">>, <<"m","i","s","s","i","n","g">> } THEN NA
      ELSE IF s \in NEG_TOKENS \/ is_failed_pattern(StrCell(s)) THEN Fail
      ELSE Fail

pass_tokens == { <<"y","e","s">>, <<"y">>, <<"t","r","u","e">>, <<"1">>, <<"p","a","s","s">>, <<"p","a","s","s","e","d">>, <<"s","u","c","c","e","s","s">>, <<"o","k">> }

fail_tokens == { <<"n","o">>, <<"n">>, <<"f","a","l","s","e">>, <<"0">>, <<"f","a","i","l">>, <<"f","a","i","l","e","d">>, <<"e","r","r","o","r">>, EmptyStr }

score_comparator_json_status_rm(status_val) ==
  LET s == Lower(norm_str(status_val))
  IN  IF s \in pass_tokens THEN Pass
      ELSE IF s \in fail_tokens \/ is_failed_pattern(StrCell(s)) THEN Fail
      ELSE Fail

\* the NA-like tokens given the verdict NA, as the classic comparator does
score_comparator_json_status_gcs_with_na(status_val) ==
  LET s == Lower(norm_str(status_val))
  IN  IF s \in POS_TOKENS THEN Pass
      ELSE IF s \in { <<"n","a">>, <<"n","/","a">>, <<"m","i","s","s","i","n","g">> } THEN NA
      ELSE Fail


score_comparator_json_status_gcs(status_val) ==
  LET s == Lower(norm_str(status_val))
  IN  IF s \in POS_TOKENS THEN Pass
      ELSE IF s \in NEG_TOKENS \/ is_failed_pattern(StrCell(s)) THEN Fail
      ELSE Fail

score_all_yes_rm(cols, row, id_col) ==
  IF \E i \in 1..Len(cols) : cols[i] # id_col /\ ~is_yes_rm(row[i]) THEN Fail ELSE Pass

score_all_yes_gcs(cols, row, id_col) ==
  IF \E i \in 1..Len(cols) : cols[i] # id_col /\ ~is_yes_gcs(row[i]) THEN Fail ELSE Pass

FLAG_NEGATIVES ==
  { <<"n","a">>, <<"n","/","a">>, <<"n","o","t"," ","a","p","p","l","i","c","a","b","l","e">>, <<"n","o">>, <<"n">>, <<"f","a","l","s","e">>, <<"0">>, <<"f","a","i","l">>, <<"f","a","i","l","e","d">> }

_is_flag_value(v) ==
  LET s == Lower(norm_str(v))
  IN  IF s = EmptyStr THEN FALSE
      ELSE s \in POS_TOKENS \/ s \in FLAG_NEGATIVES \/ is_failed_pattern(StrCell(s))

\* a row passes as soon as no flag fails, a positive flag or not
score_newrelic_row_gcs_vacuous_pass(cols, row, id_col) ==
  LET s(i) == Lower(norm_str(row[i]))
      flags == {i \in 1..Len(cols) : cols[i] # id_col /\ _is_flag_value(StrCell(s(i)))}
  IN  IF \E i \in flags : is_failed_pattern(StrCell(s(i))) \/ s(i) \in FLAG_NEGATIVES THEN Fail
      ELSE Pass


\* report_maker_gcs.py: the first flag-shaped column that is not positive
\* fails the row; a row without any positive flag fails too
score_newrelic_row_gcs(cols, row, id_col) ==
  LET s(i) == Lower(norm_str(row[i]))
      flags == {i \in 1..Len(cols) : cols[i] # id_col /\ _is_flag_value(StrCell(s(i)))}
  IN  IF \E i \in flags : is_failed_pattern(StrCell(s(i))) \/ s(i) \in FLAG_NEGATIVES THEN Fail
      ELSE IF \E i \in flags : s(i) \in POS_TOKENS THEN Pass
      ELSE Fail

\* ---------------------------------------------------------------- reasons
\* f"{name}={text}"
ReasonEntry(name, text) == name \o <<"=">> \o text

RECURSIVE Join(_, _)
\* sep.join(parts)
Join(sep, parts) ==
  IF parts = <<>> THEN EmptyStr
  ELSE IF Len(parts) = 1 THEN parts[1]
  ELSE parts[1] \o sep \o Join(sep, Tail(parts))

\* the reasons of the cells vals, each under its name: a cell contributes
\* f"{name}={rr}" when maybe_reason_from_value gives a non-empty rr
CellReasons(names, vals, R(_)) ==
  LET idx == SelectSeq([i \in 1..Len(names) |-> i],
                       LAMBDA i : R(vals[i]) # None /\ R(vals[i]) # EmptyStr)
  IN  [j \in 1..Len(idx) |-> ReasonEntry(names[idx[j]], R(vals[idx[j]]))]

\* the identifier cell not skipped: the cells are one off against their names
NonIdCells_with_id(cols, row, id_col) == row


\* the cells of the non-identifier columns, in column order
NonIdCells(cols, row, id_col) ==
  LET idx == SelectSeq([i \in 1..Len(cols) |-> i], LAMBDA i : cols[i] # id_col)
  IN  [j \in 1..Len(idx) |-> row[idx[j]]]

\* ------------------------------------------------------- per-kind evaluation
\* A scored cell: the verdict and the reasons found, in order
Scored(status, reasons) == [status |-> status, reasons |-> reasons]

IsPostedToProducer(c) == StartsWith(Lower(c), <<"p","o","s","t","e","d","_","t","o","_","p","r","o","d","u","c","e","r","_","t","o","p","i","c">>)

HasApplicable(c) == Contains(Lower(c), <<"a","p","p","l","i","c","a","b","l","e","_","f","o","r","_","c","o","n","s","u","m","e","r","_","t","o","p","i","c">>)

HasPostedToConsumer(c) == Contains(Lower(c), <<"p","o","s","t","e","d","_","t","o","_","c","o","n","s","u","m","e","r","_","t","o","p","i","c">>)

IsMatchCol(c) ==
  Contains(Lower(c), <<"e","x","p","e","c","t","e","d">>) /\ Contains(Lower(c), <<"o","b","s","e","r","v","e","d">>)
    /\ Contains(Lower(c), <<"m","a","t","c","h">>)

IsStatusCol(c) == Lower(c) = <<"s","t","a","t","u","s">>

\* row[c] if c else None
CellOrNone(cols, row, c) == IF c = None THEN NoneCell ELSE Cell(cols, row, c)

\* the fallback of the comparator kinds: every non-identifier column is "yes"
AllYesScored(status, cols, row, id_col, R(_)) ==
  Scored(status,
         IF status # Pass
         THEN CellReasons(non_id_columns(cols, id_col), NonIdCells(cols, row, id_col), R)
         ELSE <<>>)

\* report_maker.py, consolidate: the branch on kind for the row r of a source
EvalRow_rm(kind, cols, row, invc) ==
  CASE kind = "consumer" ->
         LET app_val  == CellOrNone(cols, row, FirstCol(cols, HasApplicable))
             post_val == CellOrNone(cols, row, FirstCol(cols, HasPostedToConsumer))
         IN  Scored(score_consumer_rm(app_val, post_val),
                    CellReasons(<< <<"A","p","p","l","i","c","a","b","l","e">>, <<"P","o","s","t","e","d">> >>, <<app_val, post_val>>,
                                maybe_reason_from_value_rm))
    [] kind = "comparator" ->
         LET cmp_col == FirstCol(cols, IsMatchCol)
         IN  IF cmp_col # None
             THEN LET v == Cell(cols, row, cmp_col)
                  IN  Scored(score_comparator_classic_value_rm(v),
                             CellReasons(<<cmp_col>>, <<v>>, maybe_reason_from_value_rm))
             ELSE AllYesScored(score_all_yes_rm(cols, row, invc), cols, row, invc,
                               maybe_reason_from_value_rm)
    [] kind = "json_comparator" ->
         LET status_col == FirstCol(cols, IsStatusCol)
             reason_col == FirstCol(cols, LAMBDA c : Lower(c) = <<"r","e","a","s","o","n">>)
         IN  IF status_col # None
             THEN LET status_val == Cell(cols, row, status_col)
                      status == score_comparator_json_status_rm(status_val)
                      reason_text == norm_str(CellOrNone(cols, row, reason_col))
                  IN  Scored(status,
                             CellReasons(<<status_col>>, <<status_val>>,
                                         maybe_reason_from_value_rm)
                             \o (IF status # Pass /\ reason_col # None /\ reason_text # EmptyStr
                                 THEN <<ReasonEntry(reason_col, reason_text)>> ELSE <<>>))
             ELSE AllYesScored(score_all_yes_rm(cols, row, invc), cols, row, invc,
                               maybe_reason_from_value_rm)
    [] kind = "producer" ->
         LET pcol == FirstCol(cols, IsPostedToProducer)
             val2 == CellOrNone(cols, row, pcol)
         IN  Scored(score_producer_rm(val2),
                    CellReasons(<<IF pcol # None THEN pcol ELSE <<"P","o","s","t","e","d","_","T","o","_","P","r","o","d","u","c","e","r","_","T","o","p","i","c","?">>>>,
                                <<val2>>, maybe_reason_from_value_rm))
    [] OTHER ->
         AllYesScored(score_all_yes_rm(cols, row, invc), cols, row, invc,
                      maybe_reason_from_value_rm)

\* report_maker_gcs.py, eval_row_for_kind for a row that was found
EvalRow_gcs(kind, cols, row, id_col) ==
  CASE kind = "producer" ->
         LET pcol == FirstCol(cols, IsPostedToProducer)
             val == CellOrNone(cols, row, pcol)
         IN  Scored(score_producer_gcs(val),
                    CellReasons(<<IF pcol # None THEN pcol ELSE <<"P","o","s","t","e","d","_","T","o","_","P","r","o","d","u","c","e","r","_","T","o","p","i","c","?">>>>,
                                <<val>>, maybe_reason_from_value_gcs))
    [] kind = "consumer" ->
         LET app_col  == FirstCol(cols, HasApplicable)
             post_col == FirstCol(cols, HasPostedToConsumer)
             app_val  == CellOrNone(cols, row, app_col)
             post_val == CellOrNone(cols, row, post_col)
         IN  Scored(score_consumer_gcs(app_val, post_val),
                    CellReasons(<<IF app_col # None THEN app_col ELSE <<"A","p","p","l","i","c","a","b","l","e">>,
                                  IF post_col # None THEN post_col ELSE <<"P","o","s","t","e","d">>>>,
                                <<app_val, post_val>>, maybe_reason_from_value_gcs))
    [] kind = "comparator" ->
         LET cmp_col == FirstCol(cols, IsMatchCol)
         IN  IF cmp_col # None
             THEN LET v == Cell(cols, row, cmp_col)
                  IN  Scored(score_comparator_classic_value_gcs(v),
                             CellReasons(<<cmp_col>>, <<v>>, maybe_reason_from_value_gcs))
             ELSE AllYesScored(score_all_yes_gcs(cols, row, id_col), cols, row, id_col,
                               maybe_reason_from_value_gcs)
    [] kind \in {"json_comparator", "file_comparator"} ->
         LET status_col == FirstCol(cols, IsStatusCol)
             reason_col == FirstCol(cols, LAMBDA c :
                                      Lower(c) \in { <<"r","e","a","s","o","n">>, <<"d","e","t","a","i","l","s">>, <<"d","i","f","f">> })
         IN  IF status_col # None
             THEN LET status_val == Cell(cols, row, status_col)
                      status == score_comparator_json_status_gcs(status_val)
                      reason_text == norm_str(CellOrNone(cols, row, reason_col))
                  IN  Scored(status,
                             CellReasons(<<status_col>>, <<status_val>>,
                                         maybe_reason_from_value_gcs)
                             \o (IF status # Pass /\ reason_col # None /\ reason_text # EmptyStr
                                 THEN <<ReasonEntry(reason_col, reason_text)>> ELSE <<>>))
             ELSE AllYesScored(score_all_yes_gcs(cols, row, id_col), cols, row, id_col,
                               maybe_reason_from_value_gcs)
    [] OTHER ->
         AllYesScored(score_newrelic_row_gcs(cols, row, id_col), cols, row, id_col,
                      maybe_reason_from_value_gcs)

\* eval_row_for_kind: no row or no identifier column scores Fail
eval_row_for_kind(kind, cols, row, id_col) ==
  IF row = <<>> \/ id_col = None THEN Scored(Fail, <<>>)
  ELSE EvalRow_gcs(kind, cols, row, id_col)

\* report_maker_consolidated.py, consolidate: the branch on kind; the columns
\* are looked up by prefix among df.columns, and no reasons are kept
EvalRow_rmc(kind, cols, row, invc) ==
  CASE kind = "consumer" ->
         LET app_col  == FirstCol(cols, LAMBDA c :
                                    StartsWith(Lower(c), <<"a","p","p","l","i","c","a","b","l","e","_","f","o","r","_","c","o","n","s","u","m","e","r","_","t","o","p","i","c">>))
             post_col == FirstCol(cols, LAMBDA c :
                                    StartsWith(Lower(c), <<"p","o","s","t","e","d","_","t","o","_","c","o","n","s","u","m","e","r","_","t","o","p","i","c">>))
         IN  Scored(score_consumer_rm(CellOrNone(cols, row, app_col),
                                      CellOrNone(cols, row, post_col)), <<>>)
    [] kind = "comparator" ->
         Scored(score_comparator_classic_value_rm(
                  CellOrNone(cols, row, FirstCol(cols, IsMatchCol))), <<>>)
    [] kind = "producer" ->
         Scored(score_producer_rm(CellOrNone(cols, row, FirstCol(cols, IsPostedToProducer))),
                <<>>)
    [] OTHER -> Scored(score_all_yes_rm(cols, row, invc), <<>>)

\* ------------------------------------------------------------ dictionaries
EmptyDict == [x \in {} |-> EmptyStr]

\* d[k] = v
DictPut(d, k, v) == [x \in (DOMAIN d) \cup {k} |-> IF x = k THEN v ELSE d[x]]

RECURSIVE PutAll(_, _)
\* the assignments kvs = <<k, v>>, ... made to d in order
PutAll(d, kvs) ==
  IF kvs = <<>> THEN d ELSE PutAll(DictPut(d, kvs[1][1], kvs[1][2]), Tail(kvs))

\* reasons.setdefault(key, []).append(r) for every r of rs: reasons is the
\* insertion-ordered sequence of [k, v]
ReasonsAdd(reasons, key, rs) ==
  IF rs = <<>> THEN reasons
  ELSE IF \E i \in 1..Len(reasons) : reasons[i].k = key
  THEN [i \in 1..Len(reasons) |->
          IF reasons[i].k = key THEN [k |-> key, v |-> reasons[i].v \o rs] ELSE reasons[i]]
  ELSE Append(reasons, [k |-> key, v |-> rs])

RECURSIVE ReasonsAddAll(_, _)
ReasonsAddAll(reasons, kvs) ==
  IF kvs = <<>> THEN reasons
  ELSE ReasonsAddAll(ReasonsAdd(reasons, kvs[1][1], kvs[1][2]), Tail(kvs))

\* "; ".join(f"{k}=[{', '.join(v)}]" for k, v in reasons.items()) if reasons else ""
ReasonCell(reasons) ==
  Join(<<";"," ">>, [i \in 1..Len(reasons) |->
                  reasons[i].k \o <<"=","[">> \o Join(<<","," ">>, reasons[i].v) \o <<"]">>])

\* ------------------------------------------------ report_maker.py: one row
COL_INVOICE == <<"I","n","v","o","i","c","e"," ","N","o",".">>

COL_PRODUCER == <<"p","r","o","d","u","c","e","r">>

COL_FINAL == <<"F","i","n","a","l"," ","R","e","s","u","l","t">>

COL_REASON == <<"R","e","a","s","o","n">>

\* df_prod[id_col].dropna().astype(str).map(str).tolist()
IdList(df, id_col) ==
  LET cells == [i \in 1..Len(df.rows) |-> Cell(df.columns, df.rows[i], id_col)]
      kept  == SelectSeq(cells, LAMBDA c : c.t \notin {"nan", "none"})
  IN  [i \in 1..Len(kept) |-> PyStr(kept[i])]

\* the producer cell of the row of inv (report_maker.py lines 169-179)
ProducerCell_rm(df, id_col, status_col, inv) ==
  LET prod_row == first_row_for_id_rm(df, id_col, inv)
  IN  IF prod_row = 0 THEN Scored(Fail, <<>>)
      ELSE LET val == IF status_col # None /\ HasCol(df.columns, status_col)
                      THEN Cell(df.columns, df.rows[prod_row], status_col) ELSE NoneCell
           IN  Scored(score_producer_rm(val),
                      CellReasons(<< <<"P","o","s","t","e","d","_","T","o","_","P","r","o","d","u","c","e","r","_","T","o","p","i","c","?">> >>, <<val>>,
                                  maybe_reason_from_value_rm))

\* a source without a row for the entity scored NA
SourceCell_rm_missing_na(df, invc, kind, inv) ==
  IF df = NoDF \/ invc = None \/ invc = EmptyStr \/ ~HasCol(df.columns, invc)
  THEN Scored(Fail, <<>>)
  ELSE LET sub == MatchRaw(df, invc, inv)
       IN  IF sub = {} THEN Scored(NA, <<>>)
           ELSE EvalRow_rm(kind, df.columns, df.rows[SetMin(sub)], invc)

\* the cell of one configured source (report_maker.py lines 183-275)
SourceCell_rm(df, invc, kind, inv) ==
  IF df = NoDF \/ invc = None \/ invc = EmptyStr \/ ~HasCol(df.columns, invc)
  THEN Scored(Fail, <<>>)
  ELSE LET sub == MatchRaw(df, invc, inv)
       IN  IF sub = {} THEN Scored(Fail, <<>>)
           ELSE EvalRow_rm(kind, df.columns, df.rows[SetMin(sub)], invc)

\* the cell of one configured source (report_maker_consolidated.py lines 150-183)
SourceCell_rmc(df, invc, kind, inv) ==
  IF df = NoDF \/ invc = None \/ invc = EmptyStr \/ ~HasCol(df.columns, invc)
  THEN Scored(Fail, <<>>)
  ELSE LET sub == MatchRaw(df, invc, inv)
       IN  IF sub = {} THEN Scored(Fail, <<>>)
           ELSE EvalRow_rmc(kind, df.columns, df.rows[SetMin(sub)], invc)

\* Final Result of report_maker.py: every key of the row but "Invoice No."
FinalResult_rm(row) ==
  IF \A c \in (DOMAIN row) \ {COL_INVOICE} : Strip(row[c]) = Pass THEN Pass ELSE Fail

\* The body of "for inv in invoices" of report_maker.py.  scored lists what
\* each scoring gave, the producer first and then the sources in order; row
\* is the dict after all the assignments.
BuildRow_rm(inv, dfp, id_col, status_col, keys, frames, idc, knd) ==
  LET prod    == ProducerCell_rm(dfp, id_col, status_col, inv)
      cells   == [j \in 1..Len(keys) |->
                    SourceCell_rm(frames[keys[j]], idc[keys[j]], knd[keys[j]], inv)]
      scored  == <<prod>> \o cells
      names   == <<COL_PRODUCER>> \o keys
      row1    == PutAll(DictPut(EmptyDict, COL_INVOICE, inv),
                        [j \in 1..Len(names) |-> <<names[j], scored[j].status>>])
      reasons == ReasonsAddAll(<<>>, [j \in 1..Len(names) |-> <<names[j], scored[j].reasons>>])
      row2    == DictPut(row1, COL_FINAL, FinalResult_rm(row1))
  IN  [row |-> DictPut(row2, COL_REASON, ReasonCell(reasons)),
       scored |-> scored, reasons |-> reasons]

\* The body of "for inv in invoices" of report_maker_consolidated.py
BuildRow_rmc(inv, dfp, id_col, status_col, keys, frames, idc, knd) ==
  LET prod_row == first_row_for_id_rm(dfp, id_col, inv)
      val      == IF status_col # None /\ HasCol(dfp.columns, status_col) /\ prod_row # 0
                  THEN Cell(dfp.columns, dfp.rows[prod_row], status_col) ELSE NoneCell
      prod     == IF prod_row = 0 THEN Scored(Fail, <<>>)
                  ELSE Scored(score_producer_rm(val), <<>>)
      cells    == [j \in 1..Len(keys) |->
                     SourceCell_rmc(frames[keys[j]], idc[keys[j]], knd[keys[j]], inv)]
      scored   == <<prod>> \o cells
      names    == <<COL_PRODUCER>> \o keys
  IN  [row |-> PutAll(DictPut(EmptyDict, COL_INVOICE, inv),
                      [j \in 1..Len(names) |-> <<names[j], scored[j].status>>]),
       scored |-> scored, reasons |-> <<>>]

\* ------------------------------------------------------------ report tables
\* A table is [columns, rows], every row in column order.
\* pd.DataFrame(rows)[columns] and pd.DataFrame(rows).reindex(columns=columns)
Frame(columns, dicts) ==
  [columns |-> columns,
   rows |-> [i \in 1..Len(dicts) |-> [j \in 1..Len(columns) |-> dicts[i][columns[j]]]]]

\* final_result of report_maker_consolidated.py on one row sr of the frame.
\* sr[c] of a label occurring twice is a Series, whose str() is not "Pass".
final_result(columns, sr) ==
  LET per_cols == {j \in 1..Len(columns) : columns[j] # COL_INVOICE}
      twice(j) == \E i \in 1..Len(columns) : i # j /\ columns[i] = columns[j]
  IN  IF per_cols # {} /\ \A j \in per_cols : ~twice(j) /\ Strip(sr[j]) = Pass
      THEN Pass ELSE Fail

\* final_df["Final Result"] = final_df.apply(final_result, axis=1)
WithFinal(frame) ==
  [columns |-> Append(frame.columns, COL_FINAL),
   rows |-> [i \in 1..Len(frame.rows) |->
               Append(frame.rows[i], final_result(frame.columns, frame.rows[i]))]]

\* -------------------------------------------- report_maker_gcs.py: reports
REPORT_COLUMNS == << <<"I","n","v","o","i","c","e"," ","N","o",".">>, <<"S","t","a","t","u","s">>, <<"R","e","a","s","o","n">> >>

\* main, lines 326-337: the producer-only report, one row per row of df_prod
ProducerReport(dfp, prod_id_col) ==
  LET p_status_col == FirstCol(dfp.columns, IsPostedToProducer)
      one(prow) ==
        LET inv    == Strip(PyStr(Cell(dfp.columns, prow, prod_id_col)))
            val    == CellOrNone(dfp.columns, prow, p_status_col)
            reason == maybe_reason_from_value_gcs(val)
        IN  << inv, score_producer_gcs(val),
               IF reason # None /\ reason # EmptyStr
               THEN ReasonEntry(IF p_status_col # None THEN p_status_col
                                ELSE <<"P","o","s","t","e","d","_","T","o","_","P","r","o","d","u","c","e","r","_","T","o","p","i","c","?">>, reason)
               ELSE EmptyStr >>
  IN  [columns |-> REPORT_COLUMNS, rows |-> [i \in 1..Len(dfp.rows) |-> one(dfp.rows[i])]]

\* the diagnostic without the name of the source
missing_diagnostic_unnamed(file_read_ok, file_id_col, found, inv, key) ==
  IF ~file_read_ok THEN << <<"F","i","l","e"," ","m","i","s","s","i","n","g"," ","o","r"," ","u","n","r","e","a","d","a","b","l","e">> >>
  ELSE IF file_id_col = None THEN << <<"I","D"," ","c","o","l","u","m","n"," ","n","o","t"," ","f","o","u","n","d">> >>
  ELSE IF ~found THEN << <<"I","n","v","o","i","c","e"," ">> \o inv \o <<" ","m","i","s","s","i","n","g">> >>
  ELSE <<>>

\* build_report_for_file, lines 276-285: what reason_list starts with
missing_diagnostic(file_read_ok, file_id_col, found, inv, key) ==
  IF ~file_read_ok THEN << <<"F","i","l","e"," ","m","i","s","s","i","n","g"," ","o","r"," ","u","n","r","e","a","d","a","b","l","e">> >>
  ELSE IF file_id_col = None THEN << <<"I","D"," ","c","o","l","u","m","n"," ","n","o","t"," ","f","o","u","n","d">> >>
  ELSE IF ~found THEN << <<"I","n","v","o","i","c","e"," ">> \o inv \o <<" ","m","i","s","s","i","n","g"," ","i","n"," ">> \o key >>
  ELSE <<>>

\* build_report_for_file: the report of one configured source
build_report_for_file(key, kind, df_file, dfp, prod_id_col) ==
  LET file_read_ok == df_file # NoDF
      file_id_col  == IF df_file # NoDF THEN pick_id_col(df_file.columns) ELSE None
      one(prow) ==
        LET inv == Strip(PyStr(Cell(dfp.columns, prow, prod_id_col)))
            hit == IF file_read_ok /\ file_id_col # None
                   THEN {i \in 1..Len(df_file.rows) :
                           NormId(Cell(df_file.columns, df_file.rows[i], file_id_col)) = inv}
                   ELSE {}
            diag == missing_diagnostic(file_read_ok, file_id_col, hit # {}, inv, key)
            ev == IF hit # {}
                  THEN eval_row_for_kind(kind, df_file.columns, df_file.rows[SetMin(hit)],
                                         file_id_col)
                  ELSE Scored(Fail, <<>>)
        IN  << inv, ev.status, Join(<<";"," ">>, diag \o ev.reasons) >>
  IN  [columns |-> REPORT_COLUMNS, rows |-> [i \in 1..Len(dfp.rows) |-> one(dfp.rows[i])]]

\* ===================================================== scorer specification
\* The pure scorers and the reason extraction, applied to one pair of cells.
\* An input is a base text in a form (letter case, padding, cell type); the
\* failure-shaped inputs are assembled from marker, separator, tag and payload.
VARIABLES arg1, arg2, ret

Upper(s) == [i \in 1..Len(s) |-> IF s[i] \in LowerSet THEN LowerToUpper[s[i]] ELSE s[i]]

PositiveTexts ==
  { <<"y","e","s">>, <<"y">>, <<"t","r","u","e">>, <<"1">>, <<"p","a","s","s">>, <<"p","a","s","s","e","d">>, <<"s","u","c","c","e","s","s">>, <<"o","k">> }

NegativeTexts ==
  { <<"n","o">>, <<"n">>, <<"f","a","l","s","e">>, <<"0">>, <<"f","a","i","l">>, <<"f","a","i","l","e","d">>, <<"n","a">>, <<"n","/","a">>,
    <<"n","o","t"," ","a","p","p","l","i","c","a","b","l","e">>, <<"n","o","n","e">>, EmptyStr }

OtherTexts ==
  { <<"m","i","s","s","i","n","g">>, <<"m","a","y","b","e">>, <<"y","e","s","s">>, <<"1",".","0">>, <<"p","o","s","t","e","d">>, <<"e","r","r","o","r",":"," ","b","o","o","m">>,
    <<"e","x","c","e","p","t","i","o","n">>, <<"f","a","i","l","-","x">>, <<"f","a","i","l","e","d",":"," ","l","a","t","e">> }

TokenTexts == PositiveTexts \cup NegativeTexts \cup OtherTexts

Forms == {"asis", "upper", "padded", "num", "nan", "none"}

\* the cell holding text b in form f
CellOf(b, f) ==
  CASE f = "asis" -> StrCell(b)
    [] f = "upper" -> StrCell(Upper(b))
    [] f = "padded" -> StrCell(<<" ">> \o b \o <<" ", "\n">>)
    [] f = "num" -> NumCell(b)
    [] f = "nan" -> NanCell
    [] f = "none" -> NoneCell

TokenArgs ==
  { [base |-> b, form |-> f, shaped |-> FALSE, payload |-> EmptyStr, cell |-> CellOf(b, f)] :
      b \in TokenTexts, f \in {"asis", "upper", "padded"} }
  \cup { [base |-> b, form |-> "num", shaped |-> FALSE, payload |-> EmptyStr,
          cell |-> CellOf(b, "num")] : b \in { <<"1">>, <<"0">>, <<"1",".","0">> } }
  \cup { [base |-> EmptyStr, form |-> f, shaped |-> FALSE, payload |-> EmptyStr,
          cell |-> CellOf(EmptyStr, f)] : f \in {"nan", "none"} }

Markers == { <<"f","a","i","l","e","d">>, <<"F","A","I","L","E","D">>, <<"F","a","i","l","e","d">> }

Tags == { <<"c","m","p">>, <<"j","s","o","n">>, <<"X">> }

Payloads ==
  { <<"a","m","o","u","n","t"," ","m","i","s","m","a","t","c","h"," ","1","0"," ","v","s"," ","1","2">>, <<"t","i","m","e","o","u","t"," ","a","f","t","e","r"," ","3","0","s">>, <<" ","p","a","d","d","e","d"," ">>, <<"a","\n","b">>,
    <<"a","}","b">>, <<"}">>, <<"{","a","}">>, EmptyStr, <<" ">> }

\* failed-<tag>{<payload>}
Shape(mk, tg, pl) == mk \o <<"-">> \o tg \o <<"{">> \o pl \o <<"}">>

ShapedArgs ==
  { [base |-> Shape(mk, tg, pl), form |-> f, shaped |-> TRUE, payload |-> pl,
     cell |-> CellOf(Shape(mk, tg, pl), f)] :
      mk \in Markers, tg \in Tags, pl \in Payloads, f \in {"asis", "padded"} }

Arg1Set == TokenArgs \cup ShapedArgs

Arg2Set == { a \in TokenArgs : a.base \in { <<"y","e","s">>, <<"o","k">>, <<"n","o">>, <<"n","a">>, <<"f","a","i","l","-","x">>, EmptyStr } }

Impls == {"rm", "gcs"}

Idle == [fn |-> "idle", impl |-> "none", verdict |-> None, reason |-> None]

ScoreArgs ==
  /\ arg1 \in Arg1Set
  /\ arg2 \in Arg2Set
  /\ ret = Idle

score_producer(impl, value) ==
  IF impl = "gcs" THEN score_producer_gcs(value) ELSE score_producer_rm(value)

score_consumer(impl, applicable, posted) ==
  IF impl = "gcs" THEN score_consumer_gcs(applicable, posted)
  ELSE score_consumer_rm(applicable, posted)

maybe_reason_from_value(impl, value) ==
  IF impl = "gcs" THEN maybe_reason_from_value_gcs(value)
  ELSE maybe_reason_from_value_rm(value)

CallScoreProducer ==
  \E impl \in Impls :
    /\ ret = Idle
    /\ ret' = [fn |-> "score_producer", impl |-> impl,
               verdict |-> score_producer(impl, arg1.cell), reason |-> None]
    /\ UNCHANGED <<arg1, arg2>>

CallScoreConsumer ==
  \E impl \in Impls :
    /\ ret = Idle
    /\ ret' = [fn |-> "score_consumer", impl |-> impl,
               verdict |-> score_consumer(impl, arg1.cell, arg2.cell), reason |-> None]
    /\ UNCHANGED <<arg1, arg2>>

CallMaybeReason ==
  \E impl \in Impls :
    /\ ret = Idle
    /\ ret' = [fn |-> "maybe_reason_from_value", impl |-> impl, verdict |-> None,
               reason |-> maybe_reason_from_value(impl, arg1.cell)]
    /\ UNCHANGED <<arg1, arg2>>

\* a comparator row whose match column holds arg1, evaluated as the driver does
CallEvalComparator ==
  \E impl \in Impls :
    LET cols == << <<"I","n","v","o","i","c","e"," ","N","o",".">>, <<"E","x","p","e","c","t","e","d","_","v","s","_","O","b","s","e","r","v","e","d","_","M","a","t","c","h">> >>
        row  == << StrCell(<<"I","N","V","3">>), arg1.cell >>
        ev   == IF impl = "gcs" THEN eval_row_for_kind("comparator", cols, row, cols[1])
                ELSE EvalRow_rm("comparator", cols, row, cols[1])
    IN  /\ ret = Idle
        /\ ret' = [fn |-> "eval_row_for_kind", impl |-> impl, verdict |-> ev.status,
                   reason |-> Join(<<";"," ">>, ev.reasons)]
        /\ UNCHANGED <<arg1, arg2>>

ScoreNext ==
  \/ CallScoreProducer
  \/ CallScoreConsumer
  \/ CallMaybeReason
  \/ CallEvalComparator

\* ======================================================= driver specification
\* One run of a driver over a configuration and the files it names.
\*   impl      the program run: "rm", "rmc" or "gcs"
\*   cfg       keys_in_order, the keys of cfg["files"] in configuration order
\*   pc        the position of the run
\*   df_prod   the producer frame once loaded
\*   id_col    the identifier column of the producer frame
\*   invoices  the entity list (rm, rmc)
\*   dfs, id_cols, kinds   the preloaded sources, by key (rm, rmc)
\*   nloaded   the number of sources preloaded (rm, rmc) or reported (gcs)
\*   rows      the rows built so far (rm, rmc)
\*   written   the report files written, by name
\*   exit      the message of the exception that ended the run, or ""
VARIABLES impl, cfg, pc, df_prod, id_col, invoices, dfs, id_cols, kinds, nloaded, rows,
          written, exit

MaxBaseRows == 2

MaxSources == 2

\* ----- the files of the bounded runs
INV1 == StrCell(<<"I","N","V","1">>)

INV1_padded == StrCell(<<" ","I","N","V","1"," ">>)

INV2 == StrCell(<<"I","N","V","2">>)

BaseColumns == << <<"I","n","v","o","i","c","e"," ","N","o",".">>, <<"P","o","s","t","e","d","_","T","o","_","P","r","o","d","u","c","e","r","_","T","o","p","i","c","?">> >>

BaseRowSet ==
  { <<INV1, StrCell(<<"Y","e","s">>)>>,
    <<INV1_padded, StrCell(<<"o","k">>)>>,
    <<INV2, StrCell(<<"f","a","i","l","e","d","-","k","a","f","k","a","{","t","i","m","e","o","u","t","}">>)>>,
    <<NumCell(<<"7">>), StrCell(<<"Y","e","s">>)>>,
    <<NanCell, StrCell(<<"Y","e","s">>)>>,
    <<StrCell(<<" "," ">>), StrCell(<<"N","o">>)>> }

RECURSIVE SeqsUpTo(_, _)
\* the sequences over S of length at most n
SeqsUpTo(S, n) ==
  IF n = 0 THEN { <<>> }
  ELSE LET shorter == SeqsUpTo(S, n - 1)
       IN  shorter \cup { Append(q, x) : q \in {p \in shorter : Len(p) = n - 1}, x \in S }

BaseFiles ==
  { [columns |-> BaseColumns, rows |-> r] : r \in SeqsUpTo(BaseRowSet, MaxBaseRows) }
  \cup { [columns |-> << <<"N","a","m","e">>, <<"P","o","s","t","e","d","_","T","o","_","P","r","o","d","u","c","e","r","_","T","o","p","i","c","?">> >>,
          rows |-> << <<INV1, StrCell(<<"Y","e","s">>)>> >>],
         [columns |-> << <<" ","T","r","a","c","k","i","n","g","_","I","D"," ">> >>, rows |-> << <<INV1>> >>] }

NoIdFile == [columns |-> << <<"N","a","m","e">>, <<"S","t","a","t","u","s">> >>, rows |-> << <<INV1, StrCell(<<"Y","e","s">>)>> >>]

ConsumerColumns ==
  << <<"I","n","v","o","i","c","e"," ","N","o",".">>, <<"A","p","p","l","i","c","a","b","l","e","_","F","o","r","_","C","o","n","s","u","m","e","r","_","T","o","p","i","c">>, <<"P","o","s","t","e","d","_","T","o","_","C","o","n","s","u","m","e","r","_","T","o","p","i","c">> >>

ConsumerFiles ==
  { [columns |-> ConsumerColumns,
     rows |-> << <<INV1, StrCell(<<"Y","e","s">>), StrCell(<<"Y","e","s">>)>>,
                 <<INV2, StrCell(<<"Y","e","s">>), StrCell(<<"Y","e","s">>)>> >>],
    [columns |-> ConsumerColumns,
     rows |-> << <<INV1_padded, StrCell(<<"N","o">>), StrCell(<<"N","o">>)>>,
                 <<NumCell(<<"7">>), StrCell(<<"Y","e","s">>), StrCell(<<"f","a","i","l","e","d","-","k","a","f","k","a","{","t","i","m","e","o","u","t","}">>)>> >>] }

ComparatorColumns == << <<"T","r","a","c","k","i","n","g"," ","I","D">>, <<"E","x","p","e","c","t","e","d","_","v","s","_","O","b","s","e","r","v","e","d","_","M","a","t","c","h">> >>

ComparatorFiles ==
  { [columns |-> ComparatorColumns,
     rows |-> << <<INV1, StrCell(<<"y","e","s">>)>>, <<INV2, StrCell(<<"y","e","s">>)>> >>],
    [columns |-> ComparatorColumns,
     rows |-> << <<INV1, StrCell(<<"N","A">>)>>,
                 <<INV2, StrCell(<<"f","a","i","l","e","d","-","c","m","p","{","a","m","o","u","n","t"," ","m","i","s","m","a","t","c","h"," ","1","0"," ","v","s"," ","1","2","}">>)>> >>],
    [columns |-> << <<"T","r","a","c","k","i","n","g"," ","I","D">>, <<"N","o","t","e">> >>,
     rows |-> << <<INV2, StrCell(<<"e","r","r","o","r",":"," ","b","o","o","m">>)>> >>] }

JsonColumns == << <<"I","n","v","o","i","c","e","_","N","o">>, <<"S","t","a","t","u","s">>, <<"R","e","a","s","o","n">> >>

JsonFiles ==
  { [columns |-> JsonColumns, rows |-> << <<INV1, StrCell(<<"Y","e","s">>), NanCell>> >>],
    [columns |-> JsonColumns,
     rows |-> << <<StrCell(<<"i","n","v","1">>), StrCell(<<"F","a","i","l">>), StrCell(<<"s","i","z","e"," ","d","i","f","f","e","r","s">>)>>,
                 <<INV1, StrCell(<<"Y","e","s">>), NanCell>> >>] }

TelemetryColumns == << <<"I","n","v","o","i","c","e"," ","N","o",".">>, <<"L","o","g","g","e","d">>, <<"N","o","t","e">> >>

TelemetryFiles ==
  { [columns |-> TelemetryColumns,
     rows |-> << <<INV1, StrCell(<<"Y","e","s">>), StrCell(<<"Y","e","s">>)>> >>],
    [columns |-> TelemetryColumns,
     rows |-> << <<INV1, StrCell(<<"Y","e","s">>), StrCell(<<"s","e","e"," ","t","i","c","k","e","t">>)>>,
                 <<INV2, StrCell(<<"N","o">>), StrCell(<<"e","r","r","o","r",":"," ","b","o","o","m">>)>> >>] }

ProducerFiles ==
  { [columns |-> BaseColumns, rows |-> << <<INV1, StrCell(<<"Y","e","s">>)>> >>],
    [columns |-> BaseColumns, rows |-> << <<INV1, StrCell(<<"N","o">>)>> >>],
    [columns |-> BaseColumns, rows |-> << <<INV2, StrCell(<<"Y","e","s">>)>> >>] }

\* the keys a configuration is drawn from; "producer" is also the name of the
\* base column of the consolidated report
SourceKeys == { <<"c","o","n","s","u","m","e","r">>, <<"c","o","m","p","a","r","a","t","o","r">>, <<"j","s","o","n","_","c","o","m","p","a","r","a","t","o","r">>, <<"n","r">>, <<"p","r","o","d","u","c","e","r">> }

\* the files a key may name: missing, without identifier column, or with rows
FilesFor(key) ==
  {NoDF, NoIdFile} \cup
  (CASE key = <<"c","o","n","s","u","m","e","r">> -> ConsumerFiles
     [] key = <<"c","o","m","p","a","r","a","t","o","r">> -> ComparatorFiles
     [] key = <<"j","s","o","n","_","c","o","m","p","a","r","a","t","o","r">> -> JsonFiles
     [] key = <<"p","r","o","d","u","c","e","r">> -> ProducerFiles
     [] OTHER -> TelemetryFiles)

\* files_map[key], the locator of a source
Locator(key) == <<"d","a","t","a","/">> \o key \o <<".","x","l","s","x">>

\* the ordered configurations: distinct keys, at most MaxSources of them
Configs ==
  { c \in SeqsUpTo(SourceKeys, MaxSources) :
      \A a, b \in 1..Len(c) : a # b => c[a] # c[b] }

DriverImpls == {"rm", "rmc", "gcs"}

ScoreIdle ==
  /\ arg1 = [base |-> EmptyStr, form |-> "none", shaped |-> FALSE, payload |-> EmptyStr,
             cell |-> NoneCell]
  /\ arg2 = arg1
  /\ ret = Idle

Init ==
  /\ impl \in DriverImpls
  /\ cfg \in Configs
  /\ pc = "start"
  /\ df_prod = NoDF
  /\ id_col = None
  /\ invoices = <<>>
  /\ dfs = EmptyDict
  /\ id_cols = EmptyDict
  /\ kinds = EmptyDict
  /\ nloaded = 0
  /\ rows = <<>>
  /\ written = EmptyDict
  /\ exit = EmptyStr
  /\ ScoreIdle

\* df_prod = read_excel(prod_path); SystemExit when it is None
LoadProducer ==
  /\ pc = "start"
  /\ \E file \in BaseFiles \cup {NoDF} :
       /\ df_prod' = read_excel(file)
       /\ IF file = NoDF
          THEN /\ pc' = "aborted"
               /\ exit' = <<"P","r","o","d","u","c","e","r"," ","f","i","l","e"," ","n","o","t"," ","f","o","u","n","d"," ","o","r"," ","u","n","r","e","a","d","a","b","l","e">>
          ELSE /\ pc' = "loaded"
               /\ exit' = exit
  /\ UNCHANGED <<impl, cfg, id_col, invoices, dfs, id_cols, kinds, nloaded, rows, written,
                 arg1, arg2, ret>>

\* id_col = pick_id_col(...); SystemExit when there is none; the entity list
ResolveIds ==
  /\ pc = "loaded"
  /\ id_col' = pick_id_col(df_prod.columns)
  /\ IF id_col' = None
     THEN /\ pc' = "aborted"
          /\ exit' = <<"C","o","u","l","d"," ","n","o","t"," ","d","e","t","e","c","t"," ","T","r","a","c","k","i","n","g","/","I","n","v","o","i","c","e"," ","c","o","l","u","m","n"," ","i","n"," ","p","r","o","d","u","c","e","r"," ","f","i","l","e">>
          /\ invoices' = invoices
     ELSE /\ pc' = IF impl = "gcs" THEN "producer_report" ELSE "preload"
          /\ exit' = exit
          /\ invoices' = IF impl = "gcs" THEN invoices ELSE IdList(df_prod, id_col')
  /\ UNCHANGED <<impl, cfg, df_prod, dfs, id_cols, kinds, nloaded, rows, written,
                 arg1, arg2, ret>>

\* one turn of "for key in keys_in_order" (rm lines 155-160, rmc lines 128-133)
Preload ==
  /\ pc = "preload"
  /\ nloaded < Len(cfg)
  /\ LET key == cfg[nloaded + 1]
     IN  \E file \in FilesFor(key) :
           LET df == read_excel(file)
           IN  /\ dfs' = DictPut(dfs, key, df)
               /\ id_cols' = DictPut(id_cols, key,
                                     IF df # NoDF THEN pick_id_col(df.columns) ELSE None)
               /\ kinds' = [x \in (DOMAIN kinds) \cup {key} |->
                              IF x = key
                              THEN IF impl = "rm" THEN detect_kind_from_key_rm(key)
                                   ELSE detect_kind(key, Locator(key))
                              ELSE kinds[x]]
  /\ nloaded' = nloaded + 1
  /\ UNCHANGED <<impl, cfg, pc, df_prod, id_col, invoices, rows, written, exit,
                 arg1, arg2, ret>>

prod_status_col == FirstCol(df_prod.columns, IsPostedToProducer)

\* one turn of "for inv in invoices"
BuildRow ==
  /\ pc = "preload"
  /\ nloaded = Len(cfg)
  /\ Len(rows) < Len(invoices)
  /\ LET inv == invoices[Len(rows) + 1]
     IN  rows' = Append(rows,
                        IF impl = "rm"
                        THEN BuildRow_rm(inv, df_prod, id_col, prod_status_col, cfg, dfs,
                                         id_cols, kinds)
                        ELSE BuildRow_rmc(inv, df_prod, id_col, prod_status_col, cfg, dfs,
                                          id_cols, kinds))
  /\ UNCHANGED <<impl, cfg, pc, df_prod, id_col, invoices, dfs, id_cols, kinds, nloaded,
                 written, exit, arg1, arg2, ret>>

CONSOLIDATED == <<"c","o","n","s","o","l","i","d","a","t","e","d","_","r","e","p","o","r","t",".","x","l","s","x">>

\* report_maker.py lines 287-297.  pd.DataFrame([]) has no columns, and
\* selecting the report columns from it raises KeyError.
Output_rm ==
  /\ impl = "rm"
  /\ pc = "preload"
  /\ nloaded = Len(cfg)
  /\ Len(rows) = Len(invoices)
  /\ LET columns == <<COL_INVOICE, COL_PRODUCER>> \o cfg \o <<COL_FINAL, COL_REASON>>
     IN  IF rows = <<>>
         THEN /\ pc' = "aborted"
              /\ exit' = <<"K","e","y","E","r","r","o","r">>
              /\ written' = written
         ELSE /\ pc' = "done"
              /\ exit' = exit
              /\ written' = DictPut(written, CONSOLIDATED,
                                    Frame(columns, [i \in 1..Len(rows) |-> rows[i].row]))
  /\ UNCHANGED <<impl, cfg, df_prod, id_col, invoices, dfs, id_cols, kinds, nloaded, rows,
                 arg1, arg2, ret>>

\* report_maker_consolidated.py lines 187-206.  With no rows, apply returns
\* a frame, and whether assigning it to one column raises depends on the
\* pandas release: both outcomes are kept.
Output_rmc ==
  /\ impl = "rmc"
  /\ pc = "preload"
  /\ nloaded = Len(cfg)
  /\ Len(rows) = Len(invoices)
  /\ LET columns == <<COL_INVOICE, COL_PRODUCER>> \o cfg
         final_df == WithFinal(Frame(columns, [i \in 1..Len(rows) |-> rows[i].row]))
     IN  \/ /\ pc' = "done"
            /\ exit' = exit
            /\ written' = DictPut(written, CONSOLIDATED, final_df)
         \/ /\ rows = <<>>
            /\ pc' = "aborted"
            /\ exit' = <<"V","a","l","u","e","E","r","r","o","r">>
            /\ written' = written
  /\ UNCHANGED <<impl, cfg, df_prod, id_col, invoices, dfs, id_cols, kinds, nloaded, rows,
                 arg1, arg2, ret>>

\* report_maker_gcs.py lines 325-339: the producer report is built and written
WriteProducerReport ==
  /\ impl = "gcs"
  /\ pc = "producer_report"
  /\ written' = DictPut(written, <<"p","r","o","d","u","c","e","r","_","r","e","p","o","r","t",".","x","l","s","x">>, ProducerReport(df_prod, id_col))
  /\ pc' = IF cfg = <<>> THEN "done" ELSE "files"
  /\ UNCHANGED <<impl, cfg, df_prod, id_col, invoices, dfs, id_cols, kinds, nloaded, rows,
                 exit, arg1, arg2, ret>>

\* one turn of "for key, pstr in files_map.items()" (gcs lines 342-353)
WriteFileReport ==
  /\ impl = "gcs"
  /\ pc = "files"
  /\ LET key == cfg[nloaded + 1]
     IN  \E file \in FilesFor(key) :
           /\ dfs' = DictPut(dfs, key, read_excel(file))
           /\ written' = DictPut(written, key \o <<"_","r","e","p","o","r","t",".","x","l","s","x">>,
                                 build_report_for_file(key, detect_kind_from_key_gcs(key),
                                                       read_excel(file), df_prod, id_col))
  /\ nloaded' = nloaded + 1
  /\ pc' = IF nloaded' = Len(cfg) THEN "done" ELSE "files"
  /\ UNCHANGED <<impl, cfg, df_prod, id_col, invoices, id_cols, kinds, rows, exit,
                 arg1, arg2, ret>>

Next ==
  \/ LoadProducer
  \/ ResolveIds
  \/ Preload
  \/ BuildRow
  \/ Output_rm
  \/ Output_rmc
  \/ WriteProducerReport
  \/ WriteFileReport

driverVars ==
  <<impl, cfg, pc, df_prod, id_col, invoices, dfs, id_cols, kinds, nloaded, rows, written,
    exit>>

vars == <<driverVars, arg1, arg2, ret>>

Spec == Init /\ [][Next]_vars

\* the scorer specification over the same variables: no driver runs
DriverIdle ==
  /\ impl = "none"
  /\ cfg = <<>>
  /\ pc = "idle"
  /\ df_prod = NoDF
  /\ id_col = None
  /\ invoices = <<>>
  /\ dfs = EmptyDict
  /\ id_cols = EmptyDict
  /\ kinds = EmptyDict
  /\ nloaded = 0
  /\ rows = <<>>
  /\ written = EmptyDict
  /\ exit = EmptyStr

ScoreInit == ScoreArgs /\ DriverIdle

ScoreStep == ScoreNext /\ UNCHANGED driverVars

ScoreSpec == ScoreInit /\ [][ScoreStep]_vars

\* ==================================================================== claims
\* the consolidated report of a finished run of report_maker.py or
\* report_maker_consolidated.py
ConsolidatedDone == pc = "done" /\ impl \in {"rm", "rmc"}

\* the position of the Final Result column: identifier, producer, sources
FinalPos == Len(cfg) + 3

\* source file df cannot serve entity e: unreadable, no identifier column,
\* or no row whose identifier, rendered and trimmed, is e trimmed
Unreadable(df) == df = NoDF

NoIdColumn(df) == df = read_excel(NoIdFile)

NoRowFor(df, e) ==
  /\ ~Unreadable(df) /\ ~NoIdColumn(df)
  /\ LET c == pick_id_col(df.columns)
         t == Strip(e)
     IN  \A i \in 1..Len(df.rows) : Strip(PyStr(Cell(df.columns, df.rows[i], c))) # t

CannotServe(df, e) == Unreadable(df) \/ NoIdColumn(df) \/ NoRowFor(df, e)

\* C1: in every row of the consolidated report the Final Result is Pass
\* exactly when the producer scoring and every source scoring of that row gave
\* Pass, and it is never anything but Pass or Fail.
C1_FinalPassIffAllPass ==
  ConsolidatedDone =>
    \A i \in 1..Len(rows) :
      LET final == written[CONSOLIDATED].rows[i][FinalPos]
      IN  /\ final \in {Pass, Fail}
          /\ (final = Pass) <=>
               \A j \in 1..Len(rows[i].scored) : rows[i].scored[j].status = Pass

\* C2: a source that is unreadable, has no identifier column or has no row
\* for the entity scores Fail for that entity, whatever its kind: in the row
\* dict of the consolidated drivers and in the report of the per-source driver.
C2_MissingScoresFail ==
  /\ \A i \in 1..Len(rows) : \A j \in 1..Len(cfg) :
       CannotServe(dfs[cfg[j]], rows[i].row[COL_INVOICE]) => rows[i].row[cfg[j]] = Fail
  /\ impl = "gcs" =>
       \A j \in 1..nloaded :
         LET report == written[cfg[j] \o <<"_","r","e","p","o","r","t",".","x","l","s","x">>]
         IN  \A i \in 1..Len(report.rows) :
               CannotServe(dfs[cfg[j]], report.rows[i][1]) => report.rows[i][2] = Fail

\* C2 witness: a finished consolidated run with a row whose first source is
\* unreadable and whose second source has no row for the entity, both Fail
C2_Witness ==
  /\ pc = "done" /\ impl = "rm" /\ Len(cfg) = 2 /\ Len(rows) >= 1
  /\ Unreadable(dfs[cfg[1]])
  /\ NoRowFor(dfs[cfg[2]], rows[1].row[COL_INVOICE])
  /\ rows[1].row[cfg[1]] = Fail /\ rows[1].row[cfg[2]] = Fail

\* C2 witness for the per-source driver: a report over a file without
\* identifier column, every row Fail
C2_WitnessGcs ==
  /\ pc = "done" /\ impl = "gcs" /\ Len(cfg) >= 1 /\ Len(df_prod.rows) >= 1
  /\ NoIdColumn(dfs[cfg[1]])
  /\ written[cfg[1] \o <<"_","r","e","p","o","r","t",".","x","l","s","x">>].rows[1][2] = Fail

\* the texts report_maker_gcs.py records for the three conditions
DiagnosticFor(df, e, key) ==
  IF Unreadable(df) THEN <<"F","i","l","e"," ","m","i","s","s","i","n","g"," ","o","r"," ","u","n","r","e","a","d","a","b","l","e">>
  ELSE IF NoIdColumn(df) THEN <<"I","D"," ","c","o","l","u","m","n"," ","n","o","t"," ","f","o","u","n","d">>
  ELSE <<"I","n","v","o","i","c","e"," ">> \o Strip(e) \o <<" ","m","i","s","s","i","n","g"," ","i","n"," ">> \o key

\* the reasons report_maker.py holds for key in the row, joined
RecordedReason(built, key) ==
  LET at == {n \in 1..Len(built.reasons) : built.reasons[n].k = key}
  IN  IF at = {} THEN EmptyStr ELSE Join(<<","," ">>, built.reasons[SetMin(at)].v)

\* C3 as claimed: wherever a source cannot serve the entity, the reason
\* recorded for the cell is the fixed, non-empty diagnostic of the condition,
\* in the consolidated report as in the per-source report.
C3_DiagnosticEverywhere ==
  /\ impl = "rm" =>
       \A i \in 1..Len(rows) : \A j \in 1..Len(cfg) :
         CannotServe(dfs[cfg[j]], rows[i].row[COL_INVOICE]) =>
           RecordedReason(rows[i], cfg[j]) = DiagnosticFor(dfs[cfg[j]], rows[i].row[COL_INVOICE], cfg[j])
  /\ impl = "gcs" =>
       \A j \in 1..nloaded :
         LET report == written[cfg[j] \o <<"_","r","e","p","o","r","t",".","x","l","s","x">>]
         IN  \A i \in 1..Len(report.rows) :
               CannotServe(dfs[cfg[j]], report.rows[i][1]) =>
                 report.rows[i][3] = DiagnosticFor(dfs[cfg[j]], report.rows[i][1], cfg[j])

\* C3 as amended: the per-source report records the fixed diagnostic of the
\* condition, naming entity and source for a missing row; the scoring of the
\* consolidated drivers gives Fail and records no reason.
C3_DiagnosticPerSourceOnly ==
  /\ impl = "gcs" =>
       \A j \in 1..nloaded :
         LET report == written[cfg[j] \o <<"_","r","e","p","o","r","t",".","x","l","s","x">>]
         IN  \A i \in 1..Len(report.rows) :
               CannotServe(dfs[cfg[j]], report.rows[i][1]) =>
                 /\ report.rows[i][3] = DiagnosticFor(dfs[cfg[j]], report.rows[i][1], cfg[j])
                 /\ report.rows[i][3] # EmptyStr
                 /\ NoRowFor(dfs[cfg[j]], report.rows[i][1]) =>
                      /\ Contains(report.rows[i][3], report.rows[i][1])
                      /\ Contains(report.rows[i][3], cfg[j])
  /\ impl \in {"rm", "rmc"} =>
       \A i \in 1..Len(rows) : \A j \in 1..Len(cfg) :
         CannotServe(dfs[cfg[j]], rows[i].row[COL_INVOICE]) =>
           rows[i].scored[j + 1] = Scored(Fail, <<>>)

\* C3 witness: a per-source report with the diagnostic of a missing row, and
\* another over an unreadable file
C3_Witness ==
  /\ pc = "done" /\ impl = "gcs" /\ Len(cfg) = 2 /\ Len(df_prod.rows) >= 1
  /\ Unreadable(dfs[cfg[1]])
  /\ written[cfg[1] \o <<"_","r","e","p","o","r","t",".","x","l","s","x">>].rows[1][3] = <<"F","i","l","e"," ","m","i","s","s","i","n","g"," ","o","r"," ","u","n","r","e","a","d","a","b","l","e">>
  /\ \E i \in 1..Len(df_prod.rows) :
       LET r == written[cfg[2] \o <<"_","r","e","p","o","r","t",".","x","l","s","x">>].rows[i]
       IN  /\ NoRowFor(dfs[cfg[2]], r[1])
           /\ r[1] = <<"I","N","V","2">>
           /\ r[3] = <<"I","n","v","o","i","c","e"," ","I","N","V","2"," ","m","i","s","s","i","n","g"," ","i","n"," ">> \o cfg[2]

\* ----- the value classes of the specification, by the text of the cell: a
\* text cell in any letter case and padding, or a number rendered as text
IsText(a) == ~a.shaped /\ a.form \in {"asis", "upper", "padded", "num"}

Positive(a) == IsText(a) /\ a.base \in PositiveTexts

\* the narrower classes of report_maker.py and report_maker_consolidated.py
YesOnly(a) == IsText(a) /\ a.base \in { <<"y","e","s">>, <<"y">>, <<"t","r","u","e">>, <<"1">> }

NoOnly(a) == IsText(a) /\ a.base \in { <<"n","o">>, <<"n">>, <<"f","a","l","s","e">>, <<"0">> }

\* C4 as claimed: the consumer scorer gives Pass exactly when applicable and
\* posted are both Positive and Fail for every other pair, never NA.
C4_ConsumerPassIffBothPositive ==
  ret.fn = "score_consumer" =>
    ret.verdict = IF Positive(arg1) /\ Positive(arg2) THEN Pass ELSE Fail

\* C4 as amended: the consumer scorer of report_maker_gcs.py is as claimed;
\* the one of report_maker.py gives NA when applicable is one of no, n, false,
\* 0, Pass when both values are among yes, y, true, 1, and Fail otherwise.
C4_ConsumerByPolicy ==
  ret.fn = "score_consumer" =>
    /\ ret.impl = "gcs" =>
         ret.verdict = IF Positive(arg1) /\ Positive(arg2) THEN Pass ELSE Fail
    /\ ret.impl = "rm" =>
         ret.verdict = IF NoOnly(arg1) THEN NA
                       ELSE IF YesOnly(arg1) /\ YesOnly(arg2) THEN Pass ELSE Fail

\* C4 witness: applicable "No" and posted "No" scored Fail by report_maker_gcs.py
C4_Witness ==
  /\ ret.fn = "score_consumer" /\ ret.impl = "gcs"
  /\ arg1.cell = StrCell(<<" ","n","o"," ","\n">>) /\ arg2.base = <<"n","o">>
  /\ ret.verdict = Fail

\* C9 as claimed: the producer scorer gives Pass exactly when the posted
\* value, trimmed and lower-cased, is one of yes, y, true, 1, pass, passed,
\* success, ok, and Fail otherwise (a blank or absent value too), never NA.
C9_ProducerPassIffPositive ==
  ret.fn = "score_producer" =>
    ret.verdict = IF Positive(arg1) THEN Pass ELSE Fail

\* C9 as amended: the producer scorer of report_maker_gcs.py is as claimed;
\* the one of report_maker.py gives Pass exactly for yes, y, true, 1 (trimmed,
\* any letter case) and Fail otherwise; neither gives NA.
C9_ProducerByPolicy ==
  ret.fn = "score_producer" =>
    /\ ret.impl = "gcs" => ret.verdict = IF Positive(arg1) THEN Pass ELSE Fail
    /\ ret.impl = "rm" => ret.verdict = IF YesOnly(arg1) THEN Pass ELSE Fail
    /\ ret.verdict # NA

\* C9 witness: "OK" scored Pass by report_maker_gcs.py
C9_Witness ==
  /\ ret.fn = "score_producer" /\ ret.impl = "gcs"
  /\ arg1.cell = StrCell(<<"O","K">>) /\ ret.verdict = Pass

\* the payload up to its first closing brace, the whole payload without one
UpToFirstClose(pl) ==
  LET closes == {i \in 1..Len(pl) : pl[i] = "}"}
  IN  IF closes = {} THEN pl ELSE SubSeq(pl, 1, SetMin(closes) - 1)

\* C10 as claimed: for a cell failed-<tag>{<payload>} the extracted reason is
\* the payload, trimmed, and a comparator match column holding such a cell
\* gives verdict Fail.
C10_ReasonIsTrimmedPayload ==
  arg1.shaped =>
    /\ ret.fn = "maybe_reason_from_value" => ret.reason = Strip(arg1.payload)
    /\ ret.fn = "eval_row_for_kind" => ret.verdict = Fail

\* C10 as amended: report_maker_gcs.py extracts the payload up to its first
\* closing brace, trimmed, and records it for the comparator match column as
\* <column>=<reason> unless it is empty, with verdict Fail; report_maker.py
\* extracts the whole trimmed cell value and records it the same way.
C10_ReasonByPolicy ==
  arg1.shaped =>
    LET short == Strip(UpToFirstClose(arg1.payload))
        entry(text) == <<"E","x","p","e","c","t","e","d","_","v","s","_","O","b","s","e","r","v","e","d","_","M","a","t","c","h","=">> \o text
    IN  /\ ret.fn = "maybe_reason_from_value" =>
             ret.reason = IF ret.impl = "gcs" THEN short ELSE arg1.base
        /\ ret.fn = "eval_row_for_kind" =>
             /\ ret.verdict = Fail
             /\ ret.reason = IF ret.impl = "rm" THEN entry(arg1.base)
                             ELSE IF short = EmptyStr THEN EmptyStr ELSE entry(short)

\* C10 witness: failed-cmp{amount mismatch 10 vs 12} in the match column of a
\* comparator row, evaluated by report_maker_gcs.py
C10_Witness ==
  /\ ret.fn = "eval_row_for_kind" /\ ret.impl = "gcs"
  /\ arg1.cell = StrCell(<<"f","a","i","l","e","d","-","c","m","p","{","a","m","o","u","n","t"," ","m","i","s","m","a","t","c","h"," ","1","0"," ","v","s"," ","1","2","}">>)
  /\ ret.verdict = Fail
  /\ ret.reason = <<"E","x","p","e","c","t","e","d","_","v","s","_","O","b","s","e","r","v","e","d","_","M","a","t","c","h","=","a","m","o","u","n","t"," ","m","i","s","m","a","t","c","h"," ","1","0"," ","v","s"," ","1","2">>

\* ----- the entities of a run
\* the identifier cells of the base dataset, in row order
BaseIdCells ==
  [i \in 1..Len(df_prod.rows) |-> Cell(df_prod.columns, df_prod.rows[i], id_col)]

\* a blank identifier: a missing, empty or whitespace-only cell
IsBlankId(cell) == cell.t \in {"nan", "none"} \/ Strip(PyStr(cell)) = EmptyStr

RECURSIVE FirstSeen(_, _)
\* the trimmed identifiers of cells in first-seen order, blanks skipped and
\* repeats dropped; kept is what has been taken so far
FirstSeen(cells, kept) ==
  IF cells = <<>> THEN kept
  ELSE LET e == Strip(PyStr(cells[1]))
       IN  IF IsBlankId(cells[1]) \/ \E n \in 1..Len(kept) : kept[n] = e
           THEN FirstSeen(Tail(cells), kept)
           ELSE FirstSeen(Tail(cells), Append(kept, e))

\* the identifier column of the report over the base entities
ReportedEntities ==
  LET table == IF impl = "gcs" THEN written[<<"p","r","o","d","u","c","e","r","_","r","e","p","o","r","t",".","x","l","s","x">>]
               ELSE written[CONSOLIDATED]
  IN  [i \in 1..Len(table.rows) |-> Strip(table.rows[i][1])]

\* C5: a run aborts only when the base dataset cannot be loaded or has no
\* identifier column, and then no report row and no report file exists; no
\* other input aborts it.
C5_AbortOnlyOnBase ==
  pc = "aborted" =>
    /\ df_prod = NoDF \/ pick_id_col(df_prod.columns) = None
    /\ rows = <<>>
    /\ written = EmptyDict

\* C6: the entities reported on are the identifiers of the base dataset in
\* first-seen order, blanks skipped and repeats dropped: one report row per
\* distinct non-blank base identifier.
C6_EntitiesFirstSeenDistinct ==
  pc = "done" => ReportedEntities = FirstSeen(BaseIdCells, <<>>)

\* C7: every row of the consolidated report holds one verdict for the base
\* source and one for each configured source, each the result of scoring that
\* source for the entity, in configuration order between the identifier
\* column and the Final Result column.
C7_OneVerdictPerSourceInOrder ==
  ConsolidatedDone =>
    LET table == written[CONSOLIDATED]
        verdict_cols == <<COL_PRODUCER>> \o cfg
    IN  /\ SubSeq(table.columns, 1, FinalPos) = <<COL_INVOICE>> \o verdict_cols \o <<COL_FINAL>>
        /\ \A i \in 1..Len(rows) :
             /\ Cardinality((DOMAIN rows[i].row) \ {COL_INVOICE, COL_FINAL, COL_REASON})
                  = Len(verdict_cols)
             /\ \A j \in 1..Len(verdict_cols) :
                  table.rows[i][1 + j] = rows[i].scored[j].status

\* the rows of df whose identifier, rendered and trimmed, is e trimmed
TrimmedMatch(df, c, e) ==
  {n \in 1..Len(df.rows) : Strip(PyStr(Cell(df.columns, df.rows[n], c))) = Strip(e)}

\* C8: a row is matched to an entity exactly when its identifier cell,
\* rendered as text and trimmed, equals the entity's identifier trimmed.
\* Every scored cell is then the evaluation of the first such row, and Fail
\* only when there is none: for the base lookup and the sources of the
\* consolidated drivers, and for the rows of the per-source reports.
C8_TrimmedExactMatch ==
  /\ \A i \in 1..Len(rows) :
       LET e == rows[i].row[COL_INVOICE]
       IN  /\ TrimmedMatch(df_prod, id_col, e) # {} =>
                 rows[i].scored[1].status =
                   score_producer_rm(CellOrNone(df_prod.columns,
                                                df_prod.rows[SetMin(TrimmedMatch(df_prod, id_col, e))],
                                                prod_status_col))
           /\ \A j \in 1..Len(cfg) :
                LET df == dfs[cfg[j]]
                    c  == id_cols[cfg[j]]
                IN  (df # NoDF /\ c # None) =>
                      LET hit == TrimmedMatch(df, c, e)
                      IN  rows[i].scored[j + 1].status =
                            IF hit = {} THEN Fail
                            ELSE IF impl = "rm"
                            THEN EvalRow_rm(kinds[cfg[j]], df.columns, df.rows[SetMin(hit)], c).status
                            ELSE EvalRow_rmc(kinds[cfg[j]], df.columns, df.rows[SetMin(hit)], c).status
  /\ impl = "gcs" =>
       \A j \in 1..nloaded :
         LET df == dfs[cfg[j]]
             report == written[cfg[j] \o <<"_","r","e","p","o","r","t",".","x","l","s","x">>]
         IN  (df # NoDF /\ pick_id_col(df.columns) # None) =>
               \A i \in 1..Len(report.rows) :
                 LET c   == pick_id_col(df.columns)
                     hit == TrimmedMatch(df, c, report.rows[i][1])
                 IN  report.rows[i][2] =
                       IF hit = {} THEN Fail
                       ELSE eval_row_for_kind(detect_kind_from_key_gcs(cfg[j]), df.columns,
                                              df.rows[SetMin(hit)], c).status

\* ----- reason extraction over the token classes
\* a Negative/NotApplicable value: one of the tokens in any case and padding,
\* or a blank or missing cell
Negative(a) == ~a.shaped /\ a.base \in NegativeTexts

\* the ExplicitFailure shape: the value begins with a failure, error or
\* exception marker
ExplicitFailure(a) ==
  \/ a.shaped
  \/ StartsWith(a.base, <<"f","a","i","l">>)
  \/ StartsWith(a.base, <<"e","r","r","o","r">>)
  \/ StartsWith(a.base, <<"e","x","c","e","p","t","i","o","n">>)

\* the text of the cell, trimmed, in the letter case it has
TextOf(a) == IF a.form = "upper" THEN Upper(a.base) ELSE a.base

\* a reason was produced: neither None nor the empty string
ReasonProduced == ret.reason # None /\ ret.reason # EmptyStr

\* C11 as claimed: reason extraction gives no reason for any value of the
\* Negative/NotApplicable token set, and gives one only for values of the
\* ExplicitFailure shape.
C11_NoReasonForNegative ==
  ret.fn = "maybe_reason_from_value" =>
    /\ Negative(arg1) => ret.reason = None
    /\ ReasonProduced => ExplicitFailure(arg1)

\* C11 as amended: no reason for any Negative/NotApplicable token but
\* "failed", for which report_maker_gcs.py gives the value itself (it begins
\* with the marker and nothing is left after stripping it) and report_maker.py
\* gives none; a reason is produced only for values of the ExplicitFailure shape.
C11_NoReasonForAbsence ==
  ret.fn = "maybe_reason_from_value" =>
    /\ (Negative(arg1) /\ arg1.base # <<"f","a","i","l","e","d">>) => ret.reason = None
    /\ (Negative(arg1) /\ arg1.base = <<"f","a","i","l","e","d">>) =>
         ret.reason = IF ret.impl = "gcs" THEN TextOf(arg1) ELSE None
    /\ ReasonProduced => ExplicitFailure(arg1)

\* C11 witness: " no " and "FAIL" give no reason in report_maker_gcs.py
C11_Witness ==
  /\ ret.fn = "maybe_reason_from_value" /\ ret.impl = "gcs"
  /\ arg1.cell = StrCell(<<"F","A","I","L">>)
  /\ ret.reason = None

\* ----- the two presentation strategies over the same datasets
\* what report_maker.py preloads for the sources of a finished per-source run
IdColsOf(frames) ==
  [k \in DOMAIN frames |-> IF frames[k] # NoDF THEN pick_id_col(frames[k].columns) ELSE None]

KindsOf(frames) == [k \in DOMAIN frames |-> detect_kind_from_key_rm(k)]

\* the row report_maker.py builds for the entity of base row i from the
\* datasets the per-source run has read
ConsolidatedRowFor(i) ==
  BuildRow_rm(PyStr(Cell(df_prod.columns, df_prod.rows[i], id_col)), df_prod, id_col,
              prod_status_col, cfg, dfs, IdColsOf(dfs), KindsOf(dfs))

\* C12: for the same datasets and configuration, the verdict of every entity
\* in the per-source report of a source equals the verdict report_maker.py
\* gives that source for the entity, and the verdict of the base report equals
\* the one of the consolidated producer scoring.
C12_StrategiesAgree ==
  (impl = "gcs" /\ pc = "done") =>
    \A i \in 1..Len(df_prod.rows) :
      Cell(df_prod.columns, df_prod.rows[i], id_col).t \notin {"nan", "none"} =>
        LET built == ConsolidatedRowFor(i)
        IN  /\ written[<<"p","r","o","d","u","c","e","r","_","r","e","p","o","r","t",".","x","l","s","x">>].rows[i][2] = built.scored[1].status
            /\ \A j \in 1..Len(cfg) :
                 written[cfg[j] \o <<"_","r","e","p","o","r","t",".","x","l","s","x">>].rows[i][2] = built.scored[j + 1].status

\* =================================================== resolver specification
\* The identifier resolver and the source classifier, applied to a list of
\* column names (arg1) and to a source key with its locator (arg2).
ColumnNames ==
  { <<"I","n","v","o","i","c","e"," ","N","o",".">>, <<" ","I","n","v","o","i","c","e"," ","N","o","."," ">>, <<"T","r","a","c","k","i","n","g","_","I","D">>, <<"I","n","v","o","i","c","e">>, <<"T","r","a","c","k","i","n","g"," ","I","D">>,
    <<"i","n","v","o","i","c","e","_","n","o">>, <<"M","y","_","T","r","a","c","k","i","n","g","_","R","e","f">>, <<"U","N","I","Q","U","E"," ","r","e","f">>, <<"N","a","m","e">>, <<"S","t","a","t","u","s">> }

MaxColumns == 3

\* the lists of distinct column names
ColumnLists ==
  { c \in SeqsUpTo(ColumnNames, MaxColumns) :
      \A a, b \in 1..Len(c) : a # b => c[a] # c[b] }

KeyTexts ==
  { <<"p","r","o","d","u","c","e","r">>, <<"c","o","n","s","u","m","e","r">>, <<"c","o","m","p","a","r","a","t","o","r">>, <<"j","s","o","n","_","c","o","m","p","a","r","a","t","o","r">>, <<"f","i","l","e","_","c","o","m","p","a","r","a","t","o","r">>,
    <<"c","o","m","p","a","r","a","t","o","r","_","j","s","o","n">>, <<"J","S","O","N","_","C","o","m","p","a","r","a","t","o","r","_","2">>, <<"c","o","m","p","a","r","a","t","o","r"," ","f","o","r"," ","f","i","l","e","s">>,
    <<"p","r","o","d","u","c","e","r","_","c","o","m","p","a","r","a","t","o","r">>, <<"c","o","n","s","u","m","e","r","_","p","r","o","d","u","c","e","r">>, <<"n","r">>, <<"n","e","w","_","r","e","l","i","c">>, <<"j","s","o","n">> }

PathTexts == { <<"d","a","t","a","/","i","n",".","x","l","s","x">>, <<"d","a","t","a","/","P","r","o","d","u","c","e","r",".","x","l","s","x">>, <<"g","s",":","/","/","b","/","c","o","m","p","a","r","a","t","o","r",".","x","l","s","x">> }

ClassifierImpls == {"rm", "rmc", "gcs"}

ResolveArgs ==
  /\ arg1 \in { [cols |-> c] : c \in ColumnLists }
  /\ arg2 \in { [key |-> k, path |-> p] : k \in KeyTexts, p \in PathTexts }
  /\ ret = Idle

\* pick_id_col is the same function in the three programs
CallPickIdCol ==
  /\ ret = Idle
  /\ ret' = [fn |-> "pick_id_col", impl |-> "any", out |-> pick_id_col(arg1.cols)]
  /\ UNCHANGED <<arg1, arg2>>

\* the classifier of each program; text is what it looks at
CallDetectKind ==
  \E i \in ClassifierImpls :
    /\ ret = Idle
    /\ ret' = [fn |-> "detect_kind", impl |-> i,
               text |-> IF i = "rmc" THEN Lower(arg2.key \o <<" ">> \o arg2.path)
                        ELSE Lower(arg2.key),
               out |-> CASE i = "rm" -> detect_kind_from_key_rm(arg2.key)
                         [] i = "rmc" -> detect_kind(arg2.key, arg2.path)
                         [] i = "gcs" -> detect_kind_from_key_gcs(arg2.key)]
    /\ UNCHANGED <<arg1, arg2>>

ResolveNext ==
  \/ CallPickIdCol
  \/ CallDetectKind

ResolveInit == ResolveArgs /\ DriverIdle

ResolveStep == ResolveNext /\ UNCHANGED driverVars

ResolveSpec == ResolveInit /\ [][ResolveStep]_vars

\* ----- C13
\* the columns of cols whose trimmed name is p
Named(cols, p) == {i \in 1..Len(cols) : Strip(cols[i]) = p}

\* the lower-cased name contains one of the identifier keywords
HasIdKeyword(c) ==
  \/ Contains(Lower(c), <<"i","n","v","o","i","c","e">>)
  \/ Contains(Lower(c), <<"t","r","a","c","k","i","n","g">>)
  \/ Contains(Lower(c), <<"u","n","i","q","u","e">>)

\* C13: pick_id_col returns a column bearing the earliest priority name that
\* any column bears (trimmed, exact), whatever the column order; with no such
\* column, the first column in column order whose lower-cased name contains
\* invoice, tracking or unique; and None exactly when there is neither.
C13_PriorityThenKeyword ==
  ret.fn = "pick_id_col" =>
    LET cols  == arg1.cols
        prios == {j \in 1..Len(preferred) : Named(cols, preferred[j]) # {}}
        keyed == {i \in 1..Len(cols) : HasIdKeyword(cols[i])}
    IN  /\ prios # {} =>
             \E i \in Named(cols, preferred[SetMin(prios)]) : ret.out = cols[i]
        /\ (prios = {} /\ keyed # {}) => ret.out = cols[SetMin(keyed)]
        /\ (ret.out = None) <=> (prios = {} /\ keyed = {})

\* C13 witness: Tracking_ID is picked although Invoice No. comes first, and
\* the keyword rule picks invoice_no although My_Tracking_Ref is a keyword
\* column as well
C13_Witness ==
  /\ ret.fn = "pick_id_col"
  /\ arg1.cols = << <<"I","n","v","o","i","c","e"," ","N","o",".">>, <<"M","y","_","T","r","a","c","k","i","n","g","_","R","e","f">>, <<"T","r","a","c","k","i","n","g","_","I","D">> >>
  /\ ret.out = <<"T","r","a","c","k","i","n","g","_","I","D">>

\* ----- C14
\* the Kind a classifier result stands for: the two names of the JSON/File
\* Comparator are one Kind
KindOf(k) == IF k \in {"json_comparator", "file_comparator"} THEN "jsonfile" ELSE k

\* the precedence of the specification over the lower-cased text t
ClaimedKind(t) ==
  IF Contains(t, <<"c","o","m","p","a","r","a","t","o","r">>) /\ (Contains(t, <<"j","s","o","n">>) \/ Contains(t, <<"f","i","l","e">>))
    THEN "jsonfile"
  ELSE IF Contains(t, <<"c","o","m","p","a","r","a","t","o","r">>) THEN "comparator"
  ELSE IF Contains(t, <<"p","r","o","d","u","c","e","r">>) THEN "producer"
  ELSE IF Contains(t, <<"c","o","n","s","u","m","e","r">>) THEN "consumer"
  ELSE "newrelic"

\* C14 as claimed: every classifier applies, to the lower-cased text, the
\* rules JSON/File Comparator (comparator with json or file), Comparator,
\* Producer, Consumer in this precedence, and Telemetry when none applies.
C14_ClassifierPrecedence ==
  ret.fn = "detect_kind" => KindOf(ret.out) = ClaimedKind(ret.text)

\* C14 as amended: each classifier is total and gives Telemetry when no rule
\* applies.  report_maker_gcs.py: JSON/File Comparator for a text containing
\* comparator and file, or containing json_comparator; then Comparator,
\* Producer, Consumer.  report_maker.py: JSON/File Comparator only for a text
\* containing json_comparator; then Comparator, Producer, Consumer.
\* report_maker_consolidated.py, over key and locator: Producer, then
\* Consumer, then Comparator, and no JSON/File Comparator.
C14_ClassifierByProgram ==
  ret.fn = "detect_kind" =>
    LET t == ret.text
        has(w) == Contains(t, w)
        rest == IF has(<<"c","o","m","p","a","r","a","t","o","r">>) THEN "comparator"
                ELSE IF has(<<"p","r","o","d","u","c","e","r">>) THEN "producer"
                ELSE IF has(<<"c","o","n","s","u","m","e","r">>) THEN "consumer"
                ELSE "newrelic"
    IN  /\ KindOf(ret.out) \in {"jsonfile", "comparator", "producer", "consumer", "newrelic"}
        /\ ret.impl = "gcs" =>
             KindOf(ret.out) =
               IF (has(<<"c","o","m","p","a","r","a","t","o","r">>) /\ has(<<"f","i","l","e">>)) \/ has(<<"j","s","o","n","_","c","o","m","p","a","r","a","t","o","r">>)
               THEN "jsonfile" ELSE rest
        /\ ret.impl = "rm" =>
             KindOf(ret.out) = IF has(<<"j","s","o","n","_","c","o","m","p","a","r","a","t","o","r">>) THEN "jsonfile" ELSE rest
        /\ ret.impl = "rmc" =>
             KindOf(ret.out) = IF has(<<"p","r","o","d","u","c","e","r">>) THEN "producer"
                               ELSE IF has(<<"c","o","n","s","u","m","e","r">>) THEN "consumer"
                               ELSE IF has(<<"c","o","m","p","a","r","a","t","o","r">>) THEN "comparator"
                               ELSE "newrelic"

\* C14 witness: report_maker_gcs.py classifies producer_comparator as
\* Comparator
C14_Witness ==
  /\ ret.fn = "detect_kind" /\ ret.impl = "gcs"
  /\ arg2.key = <<"p","r","o","d","u","c","e","r","_","c","o","m","p","a","r","a","t","o","r">>
  /\ ret.out = "comparator"

\* ======================================================== row specification
\* The evaluation of one source row by kind: arg1 is the row (its columns and
\* cells, the identifier first), arg2 the kind the classifier gave.
PositiveCells == { StrCell(<<"Y","e","s">>), StrCell(<<" ","o","k"," ">>), StrCell(<<"P","A","S","S","E","D">>), NumCell(<<"1">>) }

NegativeCells ==
  { StrCell(<<"n","o">>), StrCell(<<"N","A">>), StrCell(<<"f","a","i","l","e","d">>), StrCell(<<"n","o","n","e">>),
    StrCell(EmptyStr), NanCell }

ExplicitCells == { StrCell(<<"f","a","i","l","e","d","-","c","m","p","{","a","m","o","u","n","t"," ","m","i","s","m","a","t","c","h"," ","1","0"," ","v","s"," ","1","2","}">>), StrCell(<<"e","r","r","o","r",":"," ","b","o","o","m">>) }

FreeTextCells == { StrCell(<<"s","e","e"," ","t","i","c","k","e","t">>), StrCell(<<"m","i","s","s","i","n","g">>), StrCell(<<"s","i","z","e"," ","d","i","f","f","e","r","s">>) }

RowCells == PositiveCells \cup NegativeCells \cup ExplicitCells \cup FreeTextCells

RowColumnNames ==
  { <<"E","x","p","e","c","t","e","d","_","v","s","_","O","b","s","e","r","v","e","d","_","M","a","t","c","h">>, <<"m","a","t","c","h"," ","o","b","s","e","r","v","e","d","/","E","X","P","E","C","T","E","D">>, <<"S","t","a","t","u","s">>, <<"R","e","a","s","o","n">>,
    <<"D","e","t","a","i","l","s">>, <<"L","o","g","g","e","d">>, <<"N","o","t","e">> }

MaxRowColumns == 2

\* the rows: the identifier, then at most MaxRowColumns distinct columns
RowInputs ==
  { [cols  |-> << <<"I","n","v","o","i","c","e"," ","N","o",".">> >> \o c,
     cells |-> << StrCell(<<"I","N","V","1">>) >> \o v] :
      c \in { x \in SeqsUpTo(RowColumnNames, MaxRowColumns) :
                \A a, b \in 1..Len(x) : a # b => x[a] # x[b] },
      v \in SeqsUpTo(RowCells, MaxRowColumns) } 

RowKinds == {"comparator", "json_comparator", "file_comparator", "newrelic"}

\* the kinds the classifier of a program can give
KindsOfImpl(i) ==
  CASE i = "gcs" -> RowKinds
    [] i = "rm" -> RowKinds \ {"file_comparator"}
    [] i = "rmc" -> {"comparator", "newrelic"}

RowArgs ==
  /\ arg1 \in { r \in RowInputs : Len(r.cols) = Len(r.cells) }
  /\ arg2 \in { [kind |-> k] : k \in RowKinds }
  /\ ret = Idle

\* the scoring of the row found for an entity, by each program
CallEvalRow ==
  \E i \in ClassifierImpls :
    /\ ret = Idle
    /\ arg2.kind \in KindsOfImpl(i)
    /\ LET ev == CASE i = "gcs" ->
                        eval_row_for_kind(arg2.kind, arg1.cols, arg1.cells, arg1.cols[1])
                   [] i = "rm" -> EvalRow_rm(arg2.kind, arg1.cols, arg1.cells, arg1.cols[1])
                   [] i = "rmc" -> EvalRow_rmc(arg2.kind, arg1.cols, arg1.cells, arg1.cols[1])
       IN  ret' = [fn |-> "eval_row", impl |-> i, verdict |-> ev.status,
                   reasons |-> ev.reasons]
    /\ UNCHANGED <<arg1, arg2>>

RowNext == CallEvalRow

RowInit == RowArgs /\ DriverIdle

RowStep == RowNext /\ UNCHANGED driverVars

RowSpec == RowInit /\ [][RowStep]_vars

\* ----- the row of a claim: its non-identifier columns, and the classes of
\* the specification for their cells
DataCols == 2..Len(arg1.cols)

IsPositive(c) == c \in PositiveCells

IsNegative(c) == c \in NegativeCells

IsExplicit(c) == c \in ExplicitCells

IsFlagShaped(c) == IsPositive(c) \/ IsNegative(c) \/ IsExplicit(c)

\* the cell text, trimmed and lower-cased
CellText(c) == IF c.t \in {"nan", "none"} THEN EmptyStr ELSE Lower(Strip(PyStr(c)))

\* ----- C15
\* the columns whose name contains expected, observed and match
MatchNamed ==
  {i \in DataCols : /\ Contains(Lower(arg1.cols[i]), <<"e","x","p","e","c","t","e","d">>)
                    /\ Contains(Lower(arg1.cols[i]), <<"o","b","s","e","r","v","e","d">>)
                    /\ Contains(Lower(arg1.cols[i]), <<"m","a","t","c","h">>)}

NaLike(c) == CellText(c) \in { <<"n","a">>, <<"n","/","a">>, <<"m","i","s","s","i","n","g">> }

\* the verdict of the classic comparator rule, Pos(_) being what counts as
\* positive in the match column and Yes(_) in the fallback
ClassicVerdict(Pos(_), Yes(_)) ==
  IF MatchNamed # {}
  THEN LET v == arg1.cells[SetMin(MatchNamed)]
       IN  IF Pos(v) THEN Pass ELSE IF NaLike(v) THEN NA ELSE Fail
  ELSE IF \A i \in DataCols : Yes(arg1.cells[i]) THEN Pass ELSE Fail

\* C15 as claimed: a classic Comparator row with a match column is Pass for
\* a Positive value, NA for na, n/a or missing, Fail otherwise; without the
\* column it is Pass exactly when every non-identifier column is Positive.
C15_ClassicComparator ==
  (ret.fn = "eval_row" /\ arg2.kind = "comparator") =>
    ret.verdict = ClassicVerdict(IsPositive, IsPositive)

IsYesText(c) == CellText(c) = <<"y","e","s">>

IsYesOnly(c) == CellText(c) \in { <<"y","e","s">>, <<"y">>, <<"t","r","u","e">>, <<"1">> }

\* C15 as amended: report_maker_gcs.py is as claimed; in report_maker.py the
\* match column is Pass only for the value yes and the fallback wants every
\* non-identifier column among yes, y, true, 1; report_maker_consolidated.py
\* scores the match column as report_maker.py does and has no fallback: a row
\* without the column is Fail.
C15_ClassicComparatorByProgram ==
  (ret.fn = "eval_row" /\ arg2.kind = "comparator") =>
    /\ ret.impl = "gcs" => ret.verdict = ClassicVerdict(IsPositive, IsPositive)
    /\ ret.impl = "rm" => ret.verdict = ClassicVerdict(IsYesText, IsYesOnly)
    /\ ret.impl = "rmc" =>
         ret.verdict = IF MatchNamed # {} THEN ClassicVerdict(IsYesText, IsYesOnly) ELSE Fail

\* C15 witness: report_maker_gcs.py gives NA for "missing" in a column named
\* "match observed/EXPECTED" although the other column is positive
C15_Witness ==
  /\ ret.fn = "eval_row" /\ ret.impl = "gcs" /\ arg2.kind = "comparator"
  /\ arg1.cols = << <<"I","n","v","o","i","c","e"," ","N","o",".">>, <<"L","o","g","g","e","d">>, <<"m","a","t","c","h"," ","o","b","s","e","r","v","e","d","/","E","X","P","E","C","T","E","D">> >>
  /\ arg1.cells[2] = StrCell(<<"Y","e","s">>) /\ arg1.cells[3] = StrCell(<<"m","i","s","s","i","n","g">>)
  /\ ret.verdict = NA

\* ----- C16
IsJsonKind == arg2.kind \in {"json_comparator", "file_comparator"}

\* the columns named Status, and those named by one of names, in any case
StatusNamed == {i \in DataCols : Lower(arg1.cols[i]) = <<"s","t","a","t","u","s">>}

ColsNamed(names) == {i \in DataCols : Lower(arg1.cols[i]) \in names}

\* the trimmed text of column i, in its letter case
FullText(i) ==
  IF arg1.cells[i].t \in {"nan", "none"} THEN EmptyStr ELSE Strip(PyStr(arg1.cells[i]))

Attached(entry) == \E n \in 1..Len(ret.reasons) : ret.reasons[n] = entry

\* the JSON/File Comparator rule with the reason columns called names
JsonRule(names) ==
  /\ ret.verdict = IF IsPositive(arg1.cells[SetMin(StatusNamed)]) THEN Pass ELSE Fail
  /\ (ret.verdict # Pass /\ ColsNamed(names) # {}) =>
       LET i == SetMin(ColsNamed(names))
       IN  FullText(i) # EmptyStr =>
             Attached(arg1.cols[i] \o <<"=">> \o FullText(i))

\* C16 as claimed: with a Status column the verdict is Pass for a Positive
\* Status and Fail otherwise, and a row that is not Pass has the text of its
\* reason, details or diff column attached as a reason, whatever its shape.
C16_JsonStatusAndReason ==
  (ret.fn = "eval_row" /\ IsJsonKind /\ StatusNamed # {}) =>
    JsonRule({ <<"r","e","a","s","o","n">>, <<"d","e","t","a","i","l","s">>, <<"d","i","f","f">> })

\* C16 as amended: as claimed in report_maker_gcs.py; in report_maker.py the
\* text attached is the one of a column named reason only, and a details or
\* diff column is treated as any other column.
C16_JsonStatusAndReasonByProgram ==
  (ret.fn = "eval_row" /\ IsJsonKind /\ StatusNamed # {}) =>
    /\ ret.impl = "gcs" => JsonRule({ <<"r","e","a","s","o","n">>, <<"d","e","t","a","i","l","s">>, <<"d","i","f","f">> })
    /\ ret.impl = "rm" =>
         /\ JsonRule({ <<"r","e","a","s","o","n">> })
         /\ \A i \in ColsNamed({ <<"d","e","t","a","i","l","s">>, <<"d","i","f","f">> }) :
              ~Attached(arg1.cols[i] \o <<"=">> \o FullText(i))

\* C16 witness: report_maker_gcs.py attaches the free text of the Details
\* column to a row whose Status is NA, scored Fail
C16_Witness ==
  /\ ret.fn = "eval_row" /\ ret.impl = "gcs" /\ arg2.kind = "file_comparator"
  /\ arg1.cols = << <<"I","n","v","o","i","c","e"," ","N","o",".">>, <<"D","e","t","a","i","l","s">>, <<"S","t","a","t","u","s">> >>
  /\ arg1.cells[2] = StrCell(<<"s","i","z","e"," ","d","i","f","f","e","r","s">>) /\ arg1.cells[3] = StrCell(<<"N","A">>)
  /\ ret.verdict = Fail
  /\ ret.reasons = << <<"D","e","t","a","i","l","s","=","s","i","z","e"," ","d","i","f","f","e","r","s">> >>

\* ----- C17
IsTelemetry == ret.fn = "eval_row" /\ arg2.kind = "newrelic"

\* C17 as claimed: a Telemetry row is Pass exactly when every non-identifier
\* column that is flag-shaped (Positive, Negative/NotApplicable or blank,
\* ExplicitFailure) is Positive; free text is ignored.
C17_TelemetryFlagsPositive ==
  IsTelemetry =>
    ret.verdict = IF \A i \in DataCols : IsFlagShaped(arg1.cells[i]) => IsPositive(arg1.cells[i])
                  THEN Pass ELSE Fail

\* what report_maker_gcs.py takes for a failing flag: one of the tokens na,
\* n/a, not applicable, no, n, false, 0, fail, failed, or a failure text
FailingFlag(c) ==
  \/ IsExplicit(c)
  \/ CellText(c) \in { <<"n","a">>, <<"n","/","a">>, <<"n","o","t"," ","a","p","p","l","i","c","a","b","l","e">>, <<"n","o">>, <<"n">>, <<"f","a","l","s","e">>, <<"0">>,
                       <<"f","a","i","l">>, <<"f","a","i","l","e","d">> }

\* C17 as amended: report_maker_gcs.py gives Pass exactly when no
\* non-identifier column is a failing flag and at least one is Positive; blank
\* cells, the token none and free text are ignored, and a row without any
\* Positive column is Fail.  report_maker.py and report_maker_consolidated.py
\* give Pass exactly when every non-identifier column is one of yes, y, true,
\* 1: free text and blank cells make the row Fail.
C17_TelemetryByProgram ==
  IsTelemetry =>
    /\ ret.impl = "gcs" =>
         ret.verdict = IF \E i \in DataCols : FailingFlag(arg1.cells[i]) THEN Fail
                       ELSE IF \E i \in DataCols : IsPositive(arg1.cells[i]) THEN Pass
                       ELSE Fail
    /\ ret.impl \in {"rm", "rmc"} =>
         ret.verdict = IF \A i \in DataCols : IsYesOnly(arg1.cells[i]) THEN Pass ELSE Fail

\* C17 witness: report_maker_gcs.py passes a row with a positive flag and a
\* free-text note
C17_Witness ==
  /\ IsTelemetry /\ ret.impl = "gcs"
  /\ arg1.cols = << <<"I","n","v","o","i","c","e"," ","N","o",".">>, <<"L","o","g","g","e","d">>, <<"N","o","t","e">> >>
  /\ arg1.cells[2] = StrCell(<<" ","o","k"," ">>) /\ arg1.cells[3] = StrCell(<<"s","e","e"," ","t","i","c","k","e","t">>)
  /\ ret.verdict = Pass

\* ----- C18
\* the reasons recorded under the name of column i
EntriesOf(i) ==
  {n \in 1..Len(ret.reasons) : StartsWith(ret.reasons[n], arg1.cols[i] \o <<"=">>)}

\* an offending column: flag-shaped and Negative/NotApplicable or ExplicitFailure
Offending(c) == IsNegative(c) \/ IsExplicit(c)

RECURSIVE DropSeen(_, _)
\* list without the strings of seen and without repeats of its own
DropSeen(list, seen) ==
  IF list = <<>> THEN <<>>
  ELSE IF list[1] \in seen THEN DropSeen(Tail(list), seen)
  ELSE <<list[1]>> \o DropSeen(Tail(list), seen \cup {list[1]})

RECURSIVE RenderedSources(_, _, _, _)
\* names[j]=[r1, r2] for the sources from j on that are left with a reason,
\* every reason string being kept at its first occurrence only
RenderedSources(names, lists, j, seen) ==
  IF j > Len(names) THEN <<>>
  ELSE LET kept == DropSeen(lists[j], seen)
           rest == RenderedSources(names, lists, j + 1,
                                   seen \cup {kept[n] : n \in 1..Len(kept)})
       IN  IF kept = <<>> THEN rest
           ELSE << names[j] \o <<"=","[">> \o Join(<<","," ">>, kept) \o <<"]">> >> \o rest

\* C19: the Reason cell of a row of report_maker.py lists the sources that
\* have a reason, the base source first and then in configuration order, each
\* as key=[r1, r2], joined by "; ", the reasons in the order found and no
\* reason string twice; it is empty when no source has a reason.
C19_ReasonCellRendering ==
  impl = "rm" =>
    \A i \in 1..Len(rows) :
      rows[i].row[COL_REASON] =
        Join(<<";"," ">>, RenderedSources(<<COL_PRODUCER>> \o cfg,
                                     [j \in 1..Len(cfg) + 1 |-> rows[i].scored[j].reasons],
                                     1, {}))

\* ----- C20
\* the reasons report_maker.py holds under key in a built row
ReasonsUnder(built, key) ==
  {n \in 1..Len(built.reasons) : built.reasons[n].k = key /\ built.reasons[n].v # <<>>}

\* C20: a Pass verdict carries no reason: every scoring that gave Pass found
\* no reason, a row whose Final Result is Pass has an empty Reason, and
\* reasons are held only for cells whose verdict is Fail or NA; in the
\* per-source reports a Pass row has an empty Reason.
C20_PassHasNoReason ==
  /\ \A i \in 1..Len(rows) :
       /\ \A j \in 1..Len(rows[i].scored) :
            rows[i].scored[j].status = Pass => rows[i].scored[j].reasons = <<>>
       /\ impl = "rm" =>
            /\ rows[i].row[COL_FINAL] = Pass => rows[i].row[COL_REASON] = EmptyStr
            /\ \A k \in (DOMAIN rows[i].row) \ {COL_INVOICE, COL_FINAL, COL_REASON} :
                 ReasonsUnder(rows[i], k) # {} => rows[i].row[k] \in {Fail, NA}
  /\ impl = "gcs" =>
       \A f \in DOMAIN written : \A i \in 1..Len(written[f].rows) :
         written[f].rows[i][2] = Pass => written[f].rows[i][3] = EmptyStr

====
